---- MODULE Spec2Model ----
(***************************************************************************)
(* Model of the Aether kernel's process execution subsystem.               *)
(*                                                                         *)
(*   Spec       the task table and run queue (src/src/sched) and the       *)
(*              descriptor-table syscalls (src/src/syscall/mod.rs) over    *)
(*              the RAM filesystem (src/src/fs)                            *)
(*   SysSpec    dispatch with the brk, mmap and time syscalls, on a        *)
(*              booted kernel built with or without overflow checks        *)
(*   ElfSpec    load_elf (src/src/syscall/elf.rs) on a family of buffers   *)
(*   StackSpec  setup_user_stack (src/src/syscall/elf.rs)                  *)
(*   RelSpec    apply_relocations (src/src/syscall/dynlink.rs)             *)
(*   CtxSpec    switch_context, init_stack and trampoline                  *)
(*              (src/src/multitasking.rs)                                  *)
(*   TimerSpec  timer_interrupt_handler (src/src/interrupts.rs) over the   *)
(*              SCHEDULER lock (src/src/globals.rs)                        *)
(*   TrapSpec   the syscall entry paths (src/src/arch/x86_64/syscall.rs,   *)
(*              src/src/arch/aarch64/svc.rs)                               *)
(*   PageSpec   make_user_accessible over a page table                     *)
(*              (src/src/mm/paging.rs)                                     *)
(*   LockSpec   the spin locks the syscall handlers take and the loop of   *)
(*              sys_nanosleep (src/src/syscall/mod.rs,                     *)
(*              src/src/sched/queue.rs)                                    *)
(*   TimerLiveSpec and LockLiveSpec are TimerSpec and LockSpec with weak   *)
(*   fairness of the steps the processor takes on its own.                 *)
(*                                                                         *)
(* Tasks live behind Arc<Mutex<Task>> handles.  A handle is modelled as    *)
(* the index of the task in the heap sequence `tasks` (allocation order);  *)
(* the pid is the field `id`, taken from the NEXT_PID counter.             *)
(***************************************************************************)
EXTENDS Integers, Sequences, FiniteSets, TLC

\* ---------------------------------------------------------------- bounds
MaxTasks == 3       \* at most this many Task objects are created
MaxFds == 4         \* descriptor tables grow to at most this many slots
MaxOff == 2         \* descriptor offsets and file lengths stay <= MaxOff
MaxCount == 2       \* read/write byte counts are drawn from 0..MaxCount
MaxSteps == 5       \* operations in one run
MaxAllocSteps == 7  \* operations in a run of boot, open, close, dup, dup2 only
InitBinLen == 1     \* length of the embedded init binary (fs/initrd.rs)
MaxSysSteps == 4    \* dispatch calls in one run of SysSpec
MaxPhnum == 2       \* program headers an ELF image holds, and e_phnum
MaxArgs == 2        \* strings in argv, strings in envp, entries in auxv

\* ------------------------------------------------------------- constants
INIT_STACK_SIZE == 16384

EBADF == 0 - 9

ENOENT == 0 - 2

EACCES == 0 - 1

EINVAL == 0 - 22

ENOSYS == 0 - 38

ENOMEM == 0 - 12

\* static mut PROGRAM_BREAK: usize = 0x800000, the low end of the brk window
BRK_START == 8388608

\* the high end of the brk window, 0x1000000
BRK_LIMIT == 16777216

PAGE_SIZE == 4096

\* syscall numbers (mod numbers)
SYS_OPEN == 2

SYS_CLOSE == 3

SYS_MMAP == 9

SYS_MUNMAP == 11

SYS_BRK == 12

SYS_GETPID == 39

SYS_GETTIMEOFDAY == 96

SYS_CLOCK_GETTIME == 228

\* core::mem::size_of::<Elf64Header>()
EHDR_SIZE == 64

\* core::mem::size_of::<Elf64Phdr>()
PHDR_SIZE == 56

ELF_MAGIC == <<127, 69, 76, 70>>

ELFCLASS64 == 2

PT_LOAD == 1

PT_INTERP == 3

AT_NULL == 0

\* usize and u64 are 64 bits wide in the build; the model keeps UsizeBits of
\* them, so that sums that do not fit the word are within reach
UsizeBits == 24

UsizeMod == 2 ^ UsizeBits

VARIABLES
    NEXT_PID,       \* static NEXT_PID: AtomicUsize
    tasks,          \* heap of Task objects, indexed by handle
    ALL_TASKS,      \* Vec of handles
    RUN_QUEUE,      \* VecDeque of handles
    CURRENT_TASK,   \* handle of the current task, 0 for None
    ROOT,           \* TRUE once the VFS root is mounted
    content_len,    \* length of the content of the RamFS file "init"
    halted,         \* TRUE once sys_exit entered its halt loop
    steps,          \* number of operations performed so far
    wide,           \* TRUE once the run made an operation other than
                    \* boot, open, close, dup, dup2
    last,           \* history: the last operation and what it returned
    stdio_closed,   \* history: handles of tasks in which close(0|1|2) succeeded
    dup_pairs,      \* history: the alias <<handle, old, new>> made by the most
                    \* recent dup/dup2, until either slot is closed or
                    \* overwritten (a set of at most one triple)
    PROGRAM_BREAK,  \* static mut PROGRAM_BREAK: usize
    BOOT_TIME,      \* static mut BOOT_TIME: u64
    map_reqs,       \* the make_user_accessible(start, len) calls made so far
    mmaps,          \* history: the regions [start, start + len) that
                    \* mmap(0, len) calls with len > 0 returned
    panicked,       \* TRUE once the kernel panicked
    overflow_checks,\* the build: TRUE when integer overflow panics (debug),
                    \* FALSE when it wraps (release)
    sys_nr,         \* history: the number of the last syscall dispatched
    sys_ret,        \* history: what the last syscall returned
    elf_img,        \* the buffer load_elf is called on, and base_addr
    elf,            \* load_elf: its position, locals and result
    umem,           \* target memory: address -> byte written there
    ustack,         \* setup_user_stack: its arguments and what it built
    rel,            \* apply_relocations: the library, the tables and symbols
                    \* in memory, its position and the words it wrote
    ctx,            \* the processor, the stacks in memory and the saved
                    \* stack pointers, as switch_context and init_stack
                    \* leave them
    tmr,            \* the timer interrupt handler: the SCHEDULER lock, the
                    \* scheduler, the handler's position and locals
    trap,           \* the syscall trap: the registers, the kernel stack and
                    \* what the dispatcher received
    pg,             \* the page table make_user_accessible walks: which
                    \* pages are mapped and which carry USER_ACCESSIBLE
    lk              \* the handler dispatch is running, the spin locks of
                    \* src/src/sched/queue.rs and who holds them

\* the state of the task and descriptor-table machine
kernelVars == <<NEXT_PID, tasks, ALL_TASKS, RUN_QUEUE, CURRENT_TASK, ROOT,
                content_len, halted, steps, wide, last, stdio_closed,
                dup_pairs>>

\* the state of the memory and time syscalls
memVars == <<PROGRAM_BREAK, BOOT_TIME, map_reqs, mmaps, panicked,
             overflow_checks, sys_nr, sys_ret>>

\* the state of the ELF loader and of the user-stack builder
loaderVars == <<elf_img, elf, umem, ustack>>

\* the state of the dynamic linker, of the context switch engine and of the
\* timer interrupt handler, and of the syscall trap
archVars == <<rel, ctx, tmr, trap>>

\* the page table and the handler locks
sideVars == <<pg, lk>>

vars == <<kernelVars, memVars, loaderVars, archVars, sideVars>>

schedVars == <<NEXT_PID, ALL_TASKS, RUN_QUEUE, CURRENT_TASK>>

history == <<stdio_closed, dup_pairs>>

\* ------------------------------------------------------------ data model
TaskState == {"Ready", "Running", "Blocked", "Terminated"}

\* Option<FileDescriptor>::None
NoneFd == [inode |-> "none", offset |-> 0, flags |-> 0]

IsNone(slot) == slot.inode = "none"

FileDescriptor(inode, offset, flags) ==
    [inode |-> inode, offset |-> offset, flags |-> flags]

Min(a, b) == IF a <= b THEN a ELSE b

Max(a, b) == IF a >= b THEN a ELSE b

SetMin(S) == CHOOSE x \in S : \A y \in S : x <= y

\* NEXT_PID.fetch_add(1, Relaxed): the value the counter holds afterwards
fetch_add_stuck(n) == n

fetch_add(n) == n + 1

\* Task::new(stack_size), pid being the value fetched from NEXT_PID.
\* The stack buffer is all zero and never written: its length stands for it.
Task_new(pid, stack_size) ==
    [id |-> pid, parent_id |-> 0, state |-> "Ready",
     stack |-> stack_size, stack_top |-> 0,
     fd_table |-> <<NoneFd, NoneFd, NoneFd>>,
     saved_rsp |-> 0, saved_rip |-> 0, exit_status |-> 0]

Task_fork_fresh_table(self, child_pid, child_rsp, child_rip) ==
    [id |-> child_pid, parent_id |-> self.id, state |-> "Ready",
     stack |-> self.stack, stack_top |-> self.stack_top,
     fd_table |-> <<NoneFd, NoneFd, NoneFd>>,
     saved_rsp |-> child_rsp, saved_rip |-> child_rip, exit_status |-> 0]

\* Task::fork(&self, child_rsp, child_rip), child_pid fetched from NEXT_PID
Task_fork(self, child_pid, child_rsp, child_rip) ==
    [id |-> child_pid, parent_id |-> self.id, state |-> "Ready",
     stack |-> self.stack, stack_top |-> self.stack_top,
     fd_table |-> self.fd_table,
     saved_rsp |-> child_rsp, saved_rip |-> child_rip, exit_status |-> 0]

\* 0-based indices of the empty slots of a descriptor table
FreeSlots(tbl) == {i \in 0..(Len(tbl) - 1) : IsNone(tbl[i + 1])}

\* Task::add_file: <<the table it leaves, the index it returns>>
add_file(tbl, file) ==
    IF FreeSlots(tbl) = {}
    THEN <<Append(tbl, file), Len(tbl)>>
    ELSE <<[tbl EXCEPT ![SetMin(FreeSlots(tbl)) + 1] = file],
           SetMin(FreeSlots(tbl))>>

\* ------------------------------------------------------------ filesystem
BadString == "<bad>"    \* a user string longer than 1024 bytes or not UTF-8

\* the (filename, flags) arguments open is called with
OpenArgs == {<<"/", 0>>, <<"/init", 2>>, <<"init", 2>>, <<"/nope", 0>>,
             <<BadString, 0>>}

\* get_user_string: "<none>" stands for None
get_user_string(p) == IF p = BadString THEN "<none>" ELSE p

\* fs::open: the name looked up in the root directory
strip_slash(path) ==
    CASE path = "/init" -> "init"
      [] path = "/nope" -> "nope"
      [] OTHER -> path

\* fs::open: the inode it resolves to, "err" for Err(_)
fs_open(path, mounted) ==
    IF ~mounted THEN "err"
    ELSE IF path = "/" THEN "root"
    ELSE IF strip_slash(path) = "init" THEN "init"
    ELSE "err"

\* RamNode::read_at: bytes reported for a read of `count` bytes at `offset`
\* of a file of length `len`; a directory reports 0
RamNode_read_at(inode, len, offset, count) ==
    IF inode = "init"
    THEN IF offset >= len THEN 0 ELSE Min(count, len - offset)
    ELSE 0

\* RamNode::write_at: bytes reported
RamNode_write_at(inode, len, offset, count) ==
    IF inode = "init" THEN count ELSE 0

\* RamNode::write_at: the length of the content afterwards
RamNode_write_len(inode, len, offset, count) ==
    IF inode = "init" THEN Max(len, offset + count) ELSE len

offset_after_count(offset, bytes, count) == offset + count

\* file.offset += bytes as u64
offset_after(offset, bytes, count) == offset + bytes

\* ------------------------------------------------------------------ Init
MemInit ==
    /\ PROGRAM_BREAK = BRK_START
    /\ BOOT_TIME = 0
    /\ map_reqs = <<>>
    /\ mmaps = {}
    /\ panicked = FALSE
    /\ sys_nr = 0 - 1
    /\ sys_ret = 0

\* no byte of target memory written
NoMem == [a \in {} |-> 0]

\* load_elf not called: no buffer, the loader at its entry
NoImage ==
    [len |-> 0, magic |-> <<0, 0, 0, 0>>, class |-> 0, e_entry |-> 0,
     e_phoff |-> 0, e_phentsize |-> 0, e_phnum |-> 0, table |-> <<>>,
     base_addr |-> 0]

ElfEntry ==
    [pc |-> "start", i |-> 0, segments |-> <<>>, interp |-> <<>>,
     phdr_vaddr |-> 0, result |-> "none", read_off |-> 0 - 1,
     missed |-> FALSE]

\* setup_user_stack not called
NoStack ==
    [pc |-> "start", stack_top |-> 0, argv |-> <<>>, envp |-> <<>>,
     auxv |-> <<>>, sp |-> 0, bytes |-> NoMem, words |-> NoMem,
     argv_ptrs |-> <<>>, envp_ptrs |-> <<>>]

\* apply_relocations not called
NoRel ==
    [pc |-> "idle", i |-> 0,
     lib |-> [base_addr |-> 0, symtab |-> 0, rela |-> 0, relasz |-> 0,
              jmprel |-> 0, pltrelsz |-> 0],
     structs |-> NoMem, mem |-> NoMem, applied |-> <<>>, before |-> NoMem]

\* a machine of the model that no run of the specification uses
Idle == [pc |-> "idle"]

\* no page table is walked and no handler runs
SideIdle == pg = Idle /\ lk = Idle

ArchIdle ==
    /\ rel = NoRel
    /\ ctx = Idle
    /\ tmr = Idle
    /\ trap = Idle

LoaderIdle ==
    /\ elf_img = NoImage
    /\ elf = ElfEntry
    /\ umem = NoMem
    /\ ustack = NoStack
    /\ ArchIdle

\* the task and descriptor-table machine before fs::init and sched::init
KernelInit ==
    /\ NEXT_PID = 1
    /\ tasks = <<>>
    /\ ALL_TASKS = <<>>
    /\ RUN_QUEUE = <<>>
    /\ CURRENT_TASK = 0
    /\ ROOT = FALSE
    /\ content_len = 0
    /\ halted = FALSE
    /\ steps = 0
    /\ wide = FALSE
    /\ last = [op |-> "boot", ret |-> 0, bytes |-> 0, closed |-> 0 - 1,
               after_close3 |-> FALSE]
    /\ stdio_closed = {}
    /\ dup_pairs = {}

Init ==
    /\ KernelInit
    /\ MemInit
    /\ SideIdle
    /\ LoaderIdle
    /\ overflow_checks = FALSE

\* the record of an operation `op` that returned `r`
Ret(op, r) == [op |-> op, ret |-> r, bytes |-> 0, closed |-> 0 - 1,
               after_close3 |-> (last.closed = 3)]

\* the current task's descriptor table (only when CURRENT_TASK # 0)
CurTable == tasks[CURRENT_TASK].fd_table

SetCurTable(tbl) == [tasks EXCEPT ![CURRENT_TASK].fd_table = tbl]

\* --------------------------------------------------------------- actions
\* one more boot step or descriptor allocation (open, close, dup, dup2)
StepAlloc ==
    /\ steps < (IF wide THEN MaxSteps ELSE MaxAllocSteps)
    /\ steps' = steps + 1
    /\ wide' = wide

\* one more operation of any other kind
StepWide ==
    /\ steps < MaxSteps
    /\ steps' = steps + 1
    /\ wide' = TRUE

\* fs::init: mount a RamFS holding the file "init"
fs_init ==
    /\ ~ROOT
    /\ ~halted
    /\ StepAlloc
    /\ ROOT' = TRUE
    /\ content_len' = InitBinLen
    /\ last' = Ret("fs_init", 0)
    /\ UNCHANGED <<schedVars, tasks, halted, history>>

\* sched::init: create the init task, make it current, queue it
sched_init ==
    /\ CURRENT_TASK = 0
    /\ ~halted
    /\ StepAlloc
    /\ Len(tasks) < MaxTasks
    /\ tasks' = Append(tasks, Task_new(NEXT_PID, INIT_STACK_SIZE))
    /\ NEXT_PID' = fetch_add(NEXT_PID)
    /\ CURRENT_TASK' = Len(tasks) + 1
    /\ RUN_QUEUE' = Append(RUN_QUEUE, Len(tasks) + 1)
    /\ last' = Ret("sched_init", 0)
    /\ UNCHANGED <<ALL_TASKS, ROOT, content_len, halted, history>>

\* queue::spawn_task(task): <<ALL_TASKS, RUN_QUEUE.tasks>> afterwards
spawn_task(all, queue, h) == <<Append(all, h), Append(queue, h)>>

\* spawn_task(Task::new(stack_size))
spawn ==
    /\ ~halted
    /\ StepWide
    /\ Len(tasks) < MaxTasks
    /\ tasks' = Append(tasks, Task_new(NEXT_PID, INIT_STACK_SIZE))
    /\ NEXT_PID' = fetch_add(NEXT_PID)
    /\ ALL_TASKS' = spawn_task(ALL_TASKS, RUN_QUEUE, Len(tasks) + 1)[1]
    /\ RUN_QUEUE' = spawn_task(ALL_TASKS, RUN_QUEUE, Len(tasks) + 1)[2]
    /\ last' = Ret("spawn", NEXT_PID)
    /\ UNCHANGED <<CURRENT_TASK, ROOT, content_len, halted, history>>

\* sched::schedule(): the body is empty
schedule ==
    /\ StepWide
    /\ last' = Ret("schedule", 0)
    /\ UNCHANGED <<schedVars, tasks, ROOT, content_len, halted, history>>

\* fd names a populated slot of the current task
Populated(fd) ==
    /\ CURRENT_TASK # 0
    /\ fd < Len(CurTable)
    /\ ~IsNone(CurTable[fd + 1])

sys_open(filename, flags) ==
    /\ ~halted
    /\ StepAlloc
    /\ LET name == get_user_string(filename)
           inode == fs_open(name, ROOT)
       IN  IF name = "<none>" \/ inode = "err"
           THEN /\ last' = Ret("open", ENOENT)
                /\ UNCHANGED tasks
           ELSE IF CURRENT_TASK = 0
           THEN /\ last' = Ret("open", EACCES)
                /\ UNCHANGED tasks
           ELSE LET r == add_file(CurTable, FileDescriptor(inode, 0, flags))
                IN  /\ Len(r[1]) <= MaxFds
                    /\ tasks' = SetCurTable(r[1])
                    /\ last' = Ret("open", r[2])
    /\ UNCHANGED <<schedVars, ROOT, content_len, halted, history>>

sys_read(fd, count) ==
    /\ ~halted
    /\ StepWide
    /\ IF Populated(fd)
       THEN LET file == CurTable[fd + 1]
                bytes == RamNode_read_at(file.inode, content_len,
                                         file.offset, count)
            IN  /\ offset_after(file.offset, bytes, count) <= MaxOff
                /\ tasks' = SetCurTable([CurTable EXCEPT ![fd + 1].offset =
                                offset_after(file.offset, bytes, count)])
                /\ last' = [Ret("read", bytes) EXCEPT !.bytes = bytes]
       ELSE /\ last' = Ret("read", EBADF)
            /\ UNCHANGED tasks
    /\ UNCHANGED <<schedVars, ROOT, content_len, halted, history>>

sys_write(fd, count) ==
    /\ ~halted
    /\ StepWide
    /\ IF fd = 1 \/ fd = 2
       THEN /\ last' = Ret("write_console", count)
            /\ UNCHANGED <<tasks, content_len>>
       ELSE IF Populated(fd)
       THEN LET file == CurTable[fd + 1]
                bytes == RamNode_write_at(file.inode, content_len,
                                          file.offset, count)
            IN  /\ file.offset + count <= MaxOff
                /\ content_len' = RamNode_write_len(file.inode, content_len,
                                                    file.offset, count)
                /\ tasks' = SetCurTable([CurTable EXCEPT ![fd + 1].offset =
                                offset_after(file.offset, bytes, count)])
                /\ last' = [Ret("write", bytes) EXCEPT !.bytes = bytes]
       ELSE /\ last' = Ret("write", EBADF)
            /\ UNCHANGED <<tasks, content_len>>
    /\ UNCHANGED <<schedVars, ROOT, halted, history>>

\* the pairs that survive when slot fd is cleared or overwritten
DropPairs(fd) ==
    {p \in dup_pairs : ~(p[1] = CURRENT_TASK /\ (p[2] = fd \/ p[3] = fd))}

sys_close(fd) ==
    /\ ~halted
    /\ StepAlloc
    /\ IF CURRENT_TASK # 0 /\ fd < Len(CurTable)
       THEN /\ tasks' = SetCurTable([CurTable EXCEPT ![fd + 1] = NoneFd])
            /\ last' = [Ret("close", 0) EXCEPT !.closed = fd]
            /\ stdio_closed' = IF fd \in {0, 1, 2}
                               THEN stdio_closed \cup {CURRENT_TASK}
                               ELSE stdio_closed
            /\ dup_pairs' = DropPairs(fd)
       ELSE /\ last' = Ret("close", EBADF)
            /\ UNCHANGED <<tasks, history>>
    /\ UNCHANGED <<schedVars, ROOT, content_len, halted>>

sys_lseek(fd, offset, whence) ==
    /\ ~halted
    /\ StepWide
    /\ IF Populated(fd)
       THEN LET file == CurTable[fd + 1]
                new == CASE whence = 0 -> offset
                         [] whence = 1 -> file.offset + offset
                         [] OTHER -> file.offset
            IN  IF whence \notin {0, 1, 2}
                THEN /\ last' = Ret("lseek", EINVAL)
                     /\ UNCHANGED tasks
                ELSE /\ new >= 0
                     /\ new <= MaxOff
                     /\ tasks' = SetCurTable(
                            [CurTable EXCEPT ![fd + 1].offset = new])
                     /\ last' = Ret("lseek", new)
       ELSE /\ last' = Ret("lseek", EBADF)
            /\ UNCHANGED tasks
    /\ UNCHANGED <<schedVars, ROOT, content_len, halted, history>>

sys_dup(oldfd) ==
    /\ ~halted
    /\ StepAlloc
    /\ IF Populated(oldfd)
       THEN LET r == add_file(CurTable, CurTable[oldfd + 1])
            IN  /\ Len(r[1]) <= MaxFds
                /\ tasks' = SetCurTable(r[1])
                /\ last' = Ret("dup", r[2])
                /\ dup_pairs' = {<<CURRENT_TASK, oldfd, r[2]>>}
                /\ UNCHANGED stdio_closed
       ELSE /\ last' = Ret("dup", EBADF)
            /\ UNCHANGED <<tasks, history>>
    /\ UNCHANGED <<schedVars, ROOT, content_len, halted>>

\* while fd_table.len() <= newfd { fd_table.push(None) }
extend_table(tbl, newfd) ==
    IF Len(tbl) <= newfd
    THEN tbl \o [i \in 1..(newfd + 1 - Len(tbl)) |-> NoneFd]
    ELSE tbl

sys_dup2(oldfd, newfd) ==
    /\ ~halted
    /\ StepAlloc
    /\ IF Populated(oldfd)
       THEN /\ newfd < MaxFds
            /\ tasks' = SetCurTable(
                   [extend_table(CurTable, newfd) EXCEPT ![newfd + 1] =
                        CurTable[oldfd + 1]])
            /\ last' = Ret("dup2", newfd)
            /\ dup_pairs' = IF oldfd = newfd
                            THEN dup_pairs
                            ELSE {<<CURRENT_TASK, oldfd, newfd>>}
            /\ UNCHANGED stdio_closed
       ELSE /\ last' = Ret("dup2", EBADF)
            /\ UNCHANGED <<tasks, history>>
    /\ UNCHANGED <<schedVars, ROOT, content_len, halted>>

\* let child_rsp = 0u64: the saved stack pointer sys_fork gives the child
fork_child_rsp == 0

\* let child_rip = 0u64: the saved instruction pointer sys_fork gives the child
fork_child_rip == 0

sys_fork ==
    /\ ~halted
    /\ StepWide
    /\ IF CURRENT_TASK = 0
       THEN /\ last' = Ret("fork", 0 - 1)
            /\ UNCHANGED <<tasks, NEXT_PID, ALL_TASKS, RUN_QUEUE,
                           stdio_closed>>
       ELSE /\ Len(tasks) < MaxTasks
            /\ tasks' = Append(tasks, Task_fork(tasks[CURRENT_TASK], NEXT_PID,
                                         fork_child_rsp, fork_child_rip))
            /\ NEXT_PID' = fetch_add(NEXT_PID)
            /\ ALL_TASKS' = spawn_task(ALL_TASKS, RUN_QUEUE, Len(tasks) + 1)[1]
            /\ RUN_QUEUE' = spawn_task(ALL_TASKS, RUN_QUEUE, Len(tasks) + 1)[2]
            /\ last' = Ret("fork", NEXT_PID)
            /\ stdio_closed' = IF CURRENT_TASK \in stdio_closed
                               THEN stdio_closed \cup {Len(tasks) + 1}
                               ELSE stdio_closed
    /\ UNCHANGED <<CURRENT_TASK, ROOT, content_len, halted, dup_pairs>>

\* sys_exit: mark the current task Terminated, then halt forever
sys_exit(code) ==
    /\ ~halted
    /\ StepWide
    /\ tasks' = IF CURRENT_TASK # 0
                THEN [tasks EXCEPT ![CURRENT_TASK].state = "Terminated"]
                ELSE tasks
    /\ halted' = TRUE
    /\ last' = Ret("exit", code)
    /\ UNCHANGED <<schedVars, ROOT, content_len, history>>

\* descriptor numbers a syscall is given: every slot and one past the bound
Fds == 0..MaxFds

\* the descriptor-table machine leaves the other subsystems alone
KernelFrame == UNCHANGED <<memVars, loaderVars, archVars, sideVars>>

Next ==
    \/ fs_init /\ KernelFrame
    \/ sched_init /\ KernelFrame
    \/ spawn /\ KernelFrame
    \/ schedule /\ KernelFrame
    \/ \E a \in OpenArgs : sys_open(a[1], a[2]) /\ KernelFrame
    \/ \E fd \in Fds, c \in 0..MaxCount :
           sys_read(fd, c) /\ KernelFrame
    \/ \E fd \in Fds, c \in 0..MaxCount :
           sys_write(fd, c) /\ KernelFrame
    \/ \E fd \in Fds : sys_close(fd) /\ KernelFrame
    \/ \E fd \in Fds, o \in (0 - 1)..MaxOff, w \in 0..3 :
           sys_lseek(fd, o, w) /\ KernelFrame
    \/ \E fd \in Fds : sys_dup(fd) /\ KernelFrame
    \/ \E o \in Fds, n \in Fds : sys_dup2(o, n) /\ KernelFrame
    \/ sys_fork /\ KernelFrame
    \/ \E code \in {0, 1} : sys_exit(code) /\ KernelFrame

Spec == Init /\ [][Next]_vars

\* ------------------------------------------- memory and time syscalls
\* crate::mm::paging::make_user_accessible(start, len), seen from its callers:
\* the request is recorded.  A len below zero stands for the u64 value
\* 2^64 + len that a wrapped subtraction leaves.
make_user_accessible(start, len) ==
    map_reqs' = Append(map_reqs, [start |-> start, len |-> len])

page_round_none(length) == length

\* (length + 4095) & !4095
page_round_up(length) ==
    ((length + (PAGE_SIZE - 1)) \div PAGE_SIZE) * PAGE_SIZE

\* sys_brk(addr).  In the window arm the cursor is stored first and the
\* length (addr - old_break) computed after it: for addr below the old
\* break the subtraction overflows, which panics or wraps with the build.
sys_brk(addr) ==
    IF addr = 0
    THEN /\ sys_ret' = PROGRAM_BREAK
         /\ UNCHANGED <<PROGRAM_BREAK, map_reqs, mmaps, panicked>>
    ELSE IF addr >= BRK_START /\ addr <= BRK_LIMIT
    THEN /\ PROGRAM_BREAK' = addr
         /\ UNCHANGED mmaps
         /\ IF addr < PROGRAM_BREAK /\ overflow_checks
            THEN /\ panicked' = TRUE
                 /\ UNCHANGED <<map_reqs, sys_ret>>
            ELSE /\ make_user_accessible(PROGRAM_BREAK, addr - PROGRAM_BREAK)
                 /\ sys_ret' = addr
                 /\ UNCHANGED panicked
    ELSE /\ sys_ret' = ENOMEM
         /\ UNCHANGED <<PROGRAM_BREAK, map_reqs, mmaps, panicked>>

\* sys_mmap(addr, length, _prot)
sys_mmap(addr, length) ==
    IF addr = 0
    THEN /\ PROGRAM_BREAK' = PROGRAM_BREAK + page_round_up(length)
         /\ make_user_accessible(PROGRAM_BREAK, page_round_up(length))
         /\ sys_ret' = PROGRAM_BREAK
         /\ mmaps' = IF length > 0
                      THEN mmaps \cup {[start |-> PROGRAM_BREAK,
                                         len |-> length]}
                      ELSE mmaps
         /\ UNCHANGED panicked
    ELSE /\ make_user_accessible(addr, page_round_up(length))
         /\ sys_ret' = addr
         /\ UNCHANGED <<PROGRAM_BREAK, mmaps, panicked>>

\* sys_munmap: a stub that reports success
sys_munmap ==
    /\ sys_ret' = 0
    /\ UNCHANGED <<PROGRAM_BREAK, map_reqs, mmaps, panicked>>

\* sys_getpid
sys_getpid ==
    /\ sys_ret' = IF CURRENT_TASK # 0 THEN tasks[CURRENT_TASK].id ELSE 1
    /\ UNCHANGED <<PROGRAM_BREAK, map_reqs, mmaps, panicked>>

\* sys_gettimeofday(tv, _) and sys_clock_gettime(_, tp): a non-null pointer
\* bumps BOOT_TIME (the value is stored to user memory, which is not kept)
sys_gettime(ptr) ==
    /\ BOOT_TIME' = IF ptr # 0 THEN BOOT_TIME + 1 ELSE BOOT_TIME
    /\ sys_ret' = 0

\* the rest of the state when a memory or time handler runs
MemStep ==
    /\ steps' = steps + 1
    /\ UNCHANGED <<NEXT_PID, tasks, ALL_TASKS, RUN_QUEUE, CURRENT_TASK, ROOT,
                   content_len, halted, wide, last, stdio_closed, dup_pairs>>

\* the match arm for an unknown number: log a warning, return ENOSYS
sys_unimplemented_ok ==
    /\ sys_ret' = 0
    /\ MemStep
    /\ UNCHANGED <<PROGRAM_BREAK, BOOT_TIME, map_reqs, mmaps,
                                  panicked>>

sys_unimplemented ==
    /\ sys_ret' = ENOSYS
    /\ MemStep
    /\ UNCHANGED <<PROGRAM_BREAK, BOOT_TIME, map_reqs, mmaps,
                                  panicked>>

\* the numbers dispatch has a match arm for
HandlerTable ==
    {0, 1, 2, 3, 4, 5, 8, 9, 11, 12, 16, 32, 33, 22, 39, 57, 56, 59, 60, 61,
     96, 35, 228, 63, 79, 80, 102, 104, 107, 108}

\* dispatch(nr, arg0, arg1, arg2), for the handlers modelled here.  A pointer
\* argument of open is the string it points at.
dispatch(nr, arg0, arg1, arg2) ==
    /\ ~panicked
    /\ ~halted
    /\ steps < MaxSysSteps
    /\ sys_nr' = nr
    /\ IF nr \notin HandlerTable
       THEN sys_unimplemented
       ELSE CASE nr = SYS_OPEN ->
                   /\ sys_open(arg0, arg1)
                   /\ sys_ret' = last'.ret
                   /\ UNCHANGED <<PROGRAM_BREAK, BOOT_TIME, map_reqs, mmaps,
                                  panicked>>
              [] nr = SYS_CLOSE ->
                   /\ sys_close(arg0)
                   /\ sys_ret' = last'.ret
                   /\ UNCHANGED <<PROGRAM_BREAK, BOOT_TIME, map_reqs, mmaps,
                                  panicked>>
              [] nr = SYS_MMAP ->
                   sys_mmap(arg0, arg1) /\ MemStep /\ UNCHANGED BOOT_TIME
              [] nr = SYS_MUNMAP ->
                   sys_munmap /\ MemStep /\ UNCHANGED BOOT_TIME
              [] nr = SYS_BRK ->
                   sys_brk(arg0) /\ MemStep /\ UNCHANGED BOOT_TIME
              [] nr = SYS_GETPID ->
                   sys_getpid /\ MemStep /\ UNCHANGED BOOT_TIME
              [] nr = SYS_GETTIMEOFDAY ->
                   /\ sys_gettime(arg0)
                   /\ MemStep
                   /\ UNCHANGED <<PROGRAM_BREAK, map_reqs, mmaps, panicked>>
              [] nr = SYS_CLOCK_GETTIME ->
                   /\ sys_gettime(arg1)
                   /\ MemStep
                   /\ UNCHANGED <<PROGRAM_BREAK, map_reqs, mmaps, panicked>>

\* the kernel after fs::init() and sched::init(), built debug or release
SysInit ==
    /\ MemInit
    /\ SideIdle
    /\ LoaderIdle
    /\ overflow_checks \in BOOLEAN
    /\ NEXT_PID = fetch_add(1)
    /\ tasks = <<Task_new(1, INIT_STACK_SIZE)>>
    /\ ALL_TASKS = <<>>
    /\ RUN_QUEUE = <<1>>
    /\ CURRENT_TASK = 1
    /\ ROOT = TRUE
    /\ content_len = InitBinLen
    /\ halted = FALSE
    /\ steps = 0
    /\ wide = FALSE
    /\ last = [op |-> "boot", ret |-> 0, bytes |-> 0, closed |-> 0 - 1,
               after_close3 |-> FALSE]
    /\ stdio_closed = {}
    /\ dup_pairs = {}

\* the addresses brk is called with: a query, both ends of the window, an
\* address inside it, and the addresses just outside either end
BrkArgs == {0, BRK_START - 1, BRK_START, BRK_START + PAGE_SIZE, BRK_LIMIT,
            BRK_LIMIT + 1}

\* the (addr, length) pairs mmap is called with
MmapArgs == {0, 2 * BRK_LIMIT} \X
            {0, 1, PAGE_SIZE + 1, BRK_LIMIT - BRK_START}

\* syscall numbers that have no match arm
UnknownNrs == {7, 1000}

\* the build does not change while the kernel runs
SameBuild == UNCHANGED <<overflow_checks, loaderVars, archVars, sideVars>>

SysNext ==
    \/ \E a \in {<<"/", 0>>, <<"/nope", 0>>} :
           dispatch(SYS_OPEN, a[1], a[2], 0) /\ SameBuild
    \/ \E fd \in {0, 3} : dispatch(SYS_CLOSE, fd, 0, 0) /\ SameBuild
    \/ \E a \in MmapArgs : dispatch(SYS_MMAP, a[1], a[2], 0) /\ SameBuild
    \/ dispatch(SYS_MUNMAP, BRK_START, PAGE_SIZE, 0) /\ SameBuild
    \/ \E addr \in BrkArgs : dispatch(SYS_BRK, addr, 0, 0) /\ SameBuild
    \/ dispatch(SYS_GETPID, 0, 0, 0) /\ SameBuild
    \/ \E tv \in {0, 1} : dispatch(SYS_GETTIMEOFDAY, tv, 0, 0) /\ SameBuild
    \/ dispatch(SYS_CLOCK_GETTIME, 0, 1, 0) /\ SameBuild
    \/ \E nr \in UnknownNrs, a \in {0, 1} : dispatch(nr, a, a, a) /\ SameBuild

SysSpec == SysInit /\ [][SysNext]_vars

\* ------------------------------------------------------------ ELF loader
\* A buffer is kept as what its bytes decode to: its length, the header
\* fields load_elf reads, and the program headers stored back to back right
\* after the 64-byte header.  The byte at file offset k is the token k + 1,
\* which no zero fill can produce.
Phdr(type, offset, vaddr, filesz, memsz) ==
    [p_type |-> type, p_offset |-> offset, p_vaddr |-> vaddr,
     p_filesz |-> filesz, p_memsz |-> memsz]

\* the file offset just past the largest program header table
PayloadOff == EHDR_SIZE + MaxPhnum * PHDR_SIZE

\* the program headers an image may hold: two well-formed PT_LOADs (one with
\* zero fill), a PT_LOAD whose file size exceeds its memory size, a PT_LOAD
\* and a PT_INTERP whose file range ends past any buffer, a well-formed
\* PT_INTERP, and an entry of another type
Phdrs ==
    {Phdr(PT_LOAD, 0, 0, 2, 4),
     Phdr(PT_LOAD, PayloadOff, 8, 2, 2),
     Phdr(PT_LOAD, 0, 12, 3, 1),
     Phdr(PT_LOAD, PayloadOff, 16, 8, 8),
     Phdr(PT_INTERP, PayloadOff, 0, 2, 2),
     Phdr(PT_INTERP, PayloadOff, 0, 8, 8),
     Phdr(0, 0, 0, 0, 0)}

Tables == UNION {[1..n -> Phdrs] : n \in 0..MaxPhnum}

\* buffer lengths: empty, one byte short of a header, and a header followed
\* by k whole program headers, with or without 4 bytes of payload
ElfLens ==
    {0, EHDR_SIZE - 1} \cup
    {EHDR_SIZE + k * PHDR_SIZE + pay : k \in 0..MaxPhnum, pay \in {0, 4}}

\* e_ident[0..4] and e_ident[4]: a 64-bit ELF, a zeroed magic, a 32-bit ELF
Idents == {<<ELF_MAGIC, ELFCLASS64>>, <<<<0, 0, 0, 0>>, ELFCLASS64>>,
           <<ELF_MAGIC, 1>>}

\* e_phoff: right after the header, and two offsets close to the top of the
\* word
Phoffs == {EHDR_SIZE, UsizeMod - PHDR_SIZE, UsizeMod - 1}

RawImages ==
    {[len |-> l, magic |-> id[1], class |-> id[2], e_entry |-> 4,
      e_phoff |-> off, e_phentsize |-> esz, e_phnum |-> Len(t), table |-> t,
      base_addr |-> 32] :
        l \in ElfLens, id \in Idents, off \in Phoffs, esz \in {PHDR_SIZE, 0},
        t \in Tables}

\* the buffers load_elf is called on: a bad identification is combined with
\* the plain header table only
Images ==
    {img \in RawImages :
        \/ img.magic = ELF_MAGIC /\ img.class = ELFCLASS64
        \/ img.e_phoff = EHDR_SIZE /\ img.e_phentsize = PHDR_SIZE}

\* the byte of the buffer at file offset k
SrcByte(k) == k + 1

\* core::ptr::read(data.as_ptr().add(off) as *const Elf64Phdr) for a range
\* inside the buffer: the header stored there, or bytes that are no header
\* of the table and decode to an entry of some other type
read_phdr(img, off) ==
    IF /\ off >= EHDR_SIZE
       /\ (off - EHDR_SIZE) % PHDR_SIZE = 0
       /\ (off - EHDR_SIZE) \div PHDR_SIZE < Len(img.table)
    THEN img.table[((off - EHDR_SIZE) \div PHDR_SIZE) + 1]
    ELSE Phdr(0, 0, 0, 0, 0)

\* copy_nonoverlapping(src, vaddr, n), src being the buffer from offset off
copy_bytes(m, vaddr, off, n) ==
    [a \in DOMAIN m \cup vaddr..(vaddr + n - 1) |->
        IF a \in vaddr..(vaddr + n - 1) THEN SrcByte(off + (a - vaddr))
        ELSE m[a]]

zero_bytes_skipped(m, start, n) == m

\* write_bytes(start, 0, n)
zero_bytes(m, start, n) ==
    [a \in DOMAIN m \cup start..(start + n - 1) |->
        IF a \in start..(start + n - 1) THEN 0 ELSE m[a]]

\* the loader, its locals being e, stops with result r
ElfDone(e, r) == elf' = [e EXCEPT !.pc = "done", !.result = r]

\* the loader and the kernel with it stop in a panic
ElfPanic(e) ==
    /\ elf' = [e EXCEPT !.pc = "done", !.result = "panic"]
    /\ panicked' = TRUE

elf_validate_any_class(img) ==
    IF img.len < EHDR_SIZE THEN "Data too small for ELF header"
    ELSE IF img.magic # ELF_MAGIC THEN "Invalid ELF magic"
    ELSE "ok"

\* the three checks load_elf opens with: the error it returns, or "ok"
elf_validate(img) ==
    IF img.len < EHDR_SIZE THEN "Data too small for ELF header"
    ELSE IF img.magic # ELF_MAGIC THEN "Invalid ELF magic"
    ELSE IF img.class # ELFCLASS64 THEN "Not a 64-bit ELF"
    ELSE "ok"

\* load_elf, from its entry to the first loop test
elf_header ==
    /\ elf.pc = "start"
    /\ IF elf_validate(elf_img) # "ok"
       THEN ElfDone(elf, elf_validate(elf_img))
       ELSE elf' = [elf EXCEPT !.pc = "loop"]
    /\ UNCHANGED <<umem, map_reqs, panicked>>

\* u64/usize addition: whether it overflows, and the value wrapping leaves
add_overflows(a, b) == a + b >= UsizeMod

wrapping_add(a, b) == (a + b) % UsizeMod

\* the loop body once program header h has been read, e being the locals
elf_entry(h, e) ==
    IF h.p_type = PT_LOAD
    THEN LET vaddr == wrapping_add(elf_img.base_addr, h.p_vaddr)
             hdrs == wrapping_add(wrapping_add(elf_img.base_addr,
                                               elf_img.e_phoff), h.p_vaddr)
         IN  IF /\ overflow_checks
                /\ h.p_offset = 0
                /\ \/ add_overflows(elf_img.base_addr, elf_img.e_phoff)
                   \/ add_overflows(wrapping_add(elf_img.base_addr,
                                                 elf_img.e_phoff), h.p_vaddr)
             THEN ElfPanic(e) /\ UNCHANGED <<umem, map_reqs>>
             ELSE /\ make_user_accessible(vaddr, h.p_memsz)
                  /\ IF h.p_offset + h.p_filesz > elf_img.len
                     THEN ElfPanic(e) /\ UNCHANGED umem
                     ELSE /\ umem' =
                              IF h.p_memsz > h.p_filesz
                              THEN zero_bytes(
                                       copy_bytes(umem, vaddr, h.p_offset,
                                                  h.p_filesz),
                                       vaddr + h.p_filesz,
                                       h.p_memsz - h.p_filesz)
                              ELSE copy_bytes(umem, vaddr, h.p_offset,
                                              h.p_filesz)
                          /\ elf' = [e EXCEPT
                                 !.i = @ + 1,
                                 !.phdr_vaddr = IF h.p_offset = 0 THEN hdrs
                                                ELSE @,
                                 !.segments = Append(@,
                                     [vaddr |-> vaddr, size |-> h.p_memsz])]
                          /\ UNCHANGED panicked
    ELSE IF h.p_type = PT_INTERP
    THEN IF h.p_offset + h.p_filesz > elf_img.len
         THEN ElfPanic(e) /\ UNCHANGED <<umem, map_reqs>>
         ELSE /\ elf' = [e EXCEPT !.i = @ + 1,
                                    !.interp = <<h.p_offset, h.p_filesz>>]
              /\ UNCHANGED <<umem, map_reqs, panicked>>
    ELSE /\ elf' = [e EXCEPT !.i = @ + 1]
         /\ UNCHANGED <<umem, map_reqs, panicked>>

\* one turn of the loop over 0..e_phnum: locate header i, check it against
\* the buffer, read it, act on it.  off is the offset the header is read
\* from, true_off the sum e_phoff + i * e_phentsize without wrapping; the
\* history fields record the header read and a header outside the buffer
\* that was not answered with the out-of-bounds error.
elf_phdr ==
    /\ elf.pc = "loop"
    /\ elf.i < elf_img.e_phnum
    /\ LET true_off == elf_img.e_phoff + elf.i * elf_img.e_phentsize
           off == true_off % UsizeMod
           outside == true_off + PHDR_SIZE > elf_img.len
           seen == [elf EXCEPT !.read_off = true_off, !.missed = outside]
       IN  IF /\ overflow_checks
              /\ \/ add_overflows(elf_img.e_phoff,
                                  elf.i * elf_img.e_phentsize)
                 \/ add_overflows(off, PHDR_SIZE)
           THEN /\ ElfPanic([elf EXCEPT !.missed = outside])
                /\ UNCHANGED <<umem, map_reqs>>
           ELSE IF wrapping_add(off, PHDR_SIZE) > elf_img.len
           THEN /\ ElfDone(elf, "Program header out of bounds")
                /\ UNCHANGED <<umem, map_reqs, panicked>>
           ELSE IF off + PHDR_SIZE > elf_img.len
           THEN \* the read is outside the buffer: it faults, or yields
                \* whatever bytes lie there
                \/ /\ ElfDone(seen, "fault")
                   /\ panicked' = TRUE
                   /\ UNCHANGED <<umem, map_reqs>>
                \/ \E h \in Phdrs : elf_entry(h, seen)
           ELSE elf_entry(read_phdr(elf_img, off), seen)

\* the loop is over: Ok(LoadedElf { .. })
elf_finish ==
    /\ elf.pc = "loop"
    /\ elf.i >= elf_img.e_phnum
    /\ ElfDone(elf, "Ok")
    /\ UNCHANGED <<umem, map_reqs, panicked>>

\* load_elf touches nothing but target memory and the page tables
ElfFrame ==
    UNCHANGED <<kernelVars, PROGRAM_BREAK, BOOT_TIME, mmaps, overflow_checks,
                sys_nr, sys_ret, elf_img, ustack, archVars, sideVars>>

\* load_elf is called on one of the buffers, in either build
ElfInit ==
    /\ KernelInit
    /\ MemInit
    /\ SideIdle
    /\ overflow_checks \in BOOLEAN
    /\ elf_img \in Images
    /\ elf = ElfEntry
    /\ umem = NoMem
    /\ ustack = NoStack
    /\ ArchIdle

ElfNext ==
    \/ elf_header /\ ElfFrame
    \/ elf_phdr /\ ElfFrame
    \/ elf_finish /\ ElfFrame

ElfSpec == ElfInit /\ [][ElfNext]_vars

\* ------------------------------------------------------ user stack setup
\* A string is the sequence of its bytes.  Stack memory is kept as the bytes
\* written (address -> byte) and the 8-byte words written (address of the
\* word -> value).
\* sp &= !0xF
align16(sp) == sp - (sp % 16)

ptrs_insert_back(ptrs, p) == Append(ptrs, p)

\* ptrs.insert(0, sp)
ptrs_insert(ptrs, p) == <<p>> \o ptrs

\* copy_nonoverlapping(s.as_ptr(), p, s.len()); *(p + s.len()) = 0
write_cstring(bytes, p, str) ==
    [a \in DOMAIN bytes \cup p..(p + Len(str)) |->
        IF a \in p..(p + Len(str) - 1) THEN str[a - p + 1]
        ELSE IF a = p + Len(str) THEN 0
        ELSE bytes[a]]

\* for s in strs.iter().rev() { .. }: the strings not yet copied are strs;
\* st holds sp, the bytes written and the pointers collected so far
RECURSIVE copy_strings(_, _)
copy_strings(strs, st) ==
    IF strs = <<>> THEN st
    ELSE LET str == strs[Len(strs)]
             p == align16(st.sp - (Len(str) + 1))
         IN  copy_strings(SubSeq(strs, 1, Len(strs) - 1),
                          [sp |-> p,
                           bytes |-> write_cstring(st.bytes, p, str),
                           ptrs |-> ptrs_insert(st.ptrs, p)])

\* sp -= 8; *(sp as *mut u64) = v
push_word(st, v) ==
    [sp |-> st.sp - 8,
     words |-> [a \in DOMAIN st.words \cup {st.sp - 8} |->
                   IF a = st.sp - 8 THEN v ELSE st.words[a]]]

\* sp -= 16; *(sp) = key; *(sp + 8) = val
push_pair(st, key, val) == push_word(push_word(st, val), key)

\* for ptr in ptrs.iter().rev() { push }
RECURSIVE push_words_rev(_, _)
push_words_rev(st, ws) ==
    IF ws = <<>> THEN st
    ELSE push_words_rev(push_word(st, ws[Len(ws)]),
                        SubSeq(ws, 1, Len(ws) - 1))

\* for entry in auxv.iter().rev() { push key, val }
RECURSIVE push_auxv_rev(_, _)
push_auxv_rev(st, auxv) ==
    IF auxv = <<>> THEN st
    ELSE push_auxv_rev(push_pair(st, auxv[Len(auxv)][1], auxv[Len(auxv)][2]),
                       SubSeq(auxv, 1, Len(auxv) - 1))

\* setup_user_stack, first half: copy the envp strings, then the argv strings
stack_copy_strings ==
    /\ ustack.pc = "start"
    /\ LET env == copy_strings(ustack.envp,
                      [sp |-> ustack.stack_top, bytes |-> NoMem,
                       ptrs |-> <<>>])
           arg == copy_strings(ustack.argv,
                      [sp |-> env.sp, bytes |-> env.bytes, ptrs |-> <<>>])
       IN  ustack' = [ustack EXCEPT !.pc = "strings", !.sp = arg.sp,
                                    !.bytes = arg.bytes,
                                    !.envp_ptrs = env.ptrs,
                                    !.argv_ptrs = arg.ptrs]

\* setup_user_stack, second half: align, then push the auxv with its AT_NULL
\* pair, the envp pointers, the argv pointers and argc, each group under a
\* null word
stack_push_words ==
    /\ ustack.pc = "strings"
    /\ LET s0 == [sp |-> align16(ustack.sp), words |-> NoMem]
           s1 == push_pair(s0, AT_NULL, 0)
           s2 == push_auxv_rev(s1, ustack.auxv)
           s3 == push_word(s2, 0)
           s4 == push_words_rev(s3, ustack.envp_ptrs)
           s5 == push_word(s4, 0)
           s6 == push_words_rev(s5, ustack.argv_ptrs)
           s7 == push_word(s6, Len(ustack.argv))
       IN  ustack' = [ustack EXCEPT !.pc = "done", !.sp = s7.sp,
                                    !.words = s7.words]

\* the strings argv and envp are made of: "", "a", "bc", "E"
ArgStrings == {<<>>, <<97>>, <<98, 99>>}

EnvStrings == {<<69>>}

\* auxv entries (key, val): AT_PAGESZ, AT_RANDOM
AuxEntries == {<<6, 4096>>, <<25, 7>>}

\* stack_top: 0x8000, and one that is 8 modulo 16
StackTops == {32768, 32776}

SeqsUpTo(S, n) == UNION {[1..k -> S] : k \in 0..n}

\* setup_user_stack is called on some stack_top, argv, envp and auxv
StackInit ==
    /\ KernelInit
    /\ MemInit
    /\ SideIdle
    /\ overflow_checks = FALSE
    /\ elf_img = NoImage
    /\ elf = ElfEntry
    /\ umem = NoMem
    /\ ArchIdle
    /\ \E top \in StackTops, argv \in SeqsUpTo(ArgStrings, MaxArgs),
          envp \in SeqsUpTo(EnvStrings, MaxArgs),
          auxv \in SeqsUpTo(AuxEntries, MaxArgs) :
           ustack = [NoStack EXCEPT !.stack_top = top, !.argv = argv,
                                    !.envp = envp, !.auxv = auxv]

\* setup_user_stack writes user memory only
StackFrame ==
    UNCHANGED <<kernelVars, memVars, elf_img, elf, umem, archVars, sideVars>>

StackNext ==
    \/ stack_copy_strings /\ StackFrame
    \/ stack_push_words /\ StackFrame

StackSpec == StackInit /\ [][StackNext]_vars

\* ---------------------------------------------------------- dynamic linker
MaxRelocs == 2      \* a RELA table holds at most this many entries

R_X86_64_NONE == 0
R_X86_64_64 == 1
R_X86_64_GLOB_DAT == 6
R_X86_64_JUMP_SLOT == 7
R_X86_64_RELATIVE == 8

\* size_of::<Elf64Rela>() and size_of::<Elf64Sym>()
RELA_SIZE == 24
SYM_SIZE == 24

\* r_info is a 64-bit word; the model keeps it as its two 32-bit halves
Elf64Rela(off, sym, type, addend) ==
    [r_offset |-> off, r_info |-> [hi |-> sym, lo |-> type],
     r_addend |-> addend]

\* (rela.r_info & 0xFFFFFFFF) as u32
r_type_of(rela) == rela.r_info.lo

\* (rela.r_info >> 32) as usize
r_sym_of(rela) == rela.r_info.hi

\* rela.r_addend as u64: the two's complement of the signed addend
addend_as_u64(a) == a % UsizeMod

\* *addr = value
write_u64(mem, addr, value) ==
    [a \in DOMAIN mem \cup {addr} |-> IF a = addr THEN value ELSE mem[a]]

relative_value_no_base(lib, rela) == addend_as_u64(rela.r_addend)

\* R_X86_64_RELATIVE: B + A
relative_value(lib, rela) ==
    wrapping_add(lib.base_addr, addend_as_u64(rela.r_addend))

symbol_value_no_base(lib, sym) == sym.st_value

\* R_X86_64_GLOB_DAT, R_X86_64_JUMP_SLOT: S
symbol_value(lib, sym) == lib.base_addr + sym.st_value

\* R_X86_64_64: S + A
absolute_value(lib, sym, rela) ==
    wrapping_add(lib.base_addr + sym.st_value, addend_as_u64(rela.r_addend))

\* apply_relocation: the target memory after the entry `rela` is applied;
\* `structs` is the memory holding the symbol table
apply_relocation(lib, structs, rela, mem) ==
    LET r_type == r_type_of(rela)
        r_sym == r_sym_of(rela)
        addr == lib.base_addr + rela.r_offset
        sym == structs[lib.symtab + r_sym * SYM_SIZE]
    IN  CASE r_type = R_X86_64_RELATIVE ->
                write_u64(mem, addr, relative_value(lib, rela))
          [] r_type \in {R_X86_64_GLOB_DAT, R_X86_64_JUMP_SLOT} ->
                IF lib.symtab # 0 /\ sym.st_value # 0
                THEN write_u64(mem, addr, symbol_value(lib, sym))
                ELSE mem
          [] r_type = R_X86_64_64 ->
                IF lib.symtab # 0 /\ r_sym > 0
                THEN write_u64(mem, addr, absolute_value(lib, sym, rela))
                ELSE mem
          [] r_type = R_X86_64_NONE -> mem
          [] OTHER -> mem

num_entries_one_short(size) == (size \div RELA_SIZE) - 1

\* lib.relasz / size_of::<Elf64Rela>()
num_entries(size) == size \div RELA_SIZE

\* one iteration of a loop of apply_relocations over the table at `table`
rel_apply(table) ==
    LET rela == rel.structs[table + rel.i * RELA_SIZE]
    IN  rel' = [rel EXCEPT
                  !.i = rel.i + 1,
                  !.before = rel.mem,
                  !.applied = Append(rel.applied, rela),
                  !.mem = apply_relocation(rel.lib, rel.structs, rela,
                                           rel.mem)]

\* apply_relocations, the loop over DT_RELA
rel_rela ==
    /\ rel.pc = "rela"
    /\ rel.lib.rela # 0 /\ rel.lib.relasz > 0
    /\ rel.i < num_entries(rel.lib.relasz)
    /\ rel_apply(rel.lib.rela)

\* the RELA table is absent, or its loop is over
rel_rela_end ==
    /\ rel.pc = "rela"
    /\ ~(/\ rel.lib.rela # 0 /\ rel.lib.relasz > 0
         /\ rel.i < num_entries(rel.lib.relasz))
    /\ rel' = [rel EXCEPT !.pc = "jmprel", !.i = 0]

\* apply_relocations, the loop over DT_JMPREL
rel_jmprel ==
    /\ rel.pc = "jmprel"
    /\ rel.lib.jmprel # 0 /\ rel.lib.pltrelsz > 0
    /\ rel.i < num_entries(rel.lib.pltrelsz)
    /\ rel_apply(rel.lib.jmprel)

\* the JMPREL table is absent, or its loop is over: apply_relocations returns
rel_return ==
    /\ rel.pc = "jmprel"
    /\ ~(/\ rel.lib.jmprel # 0 /\ rel.lib.pltrelsz > 0
         /\ rel.i < num_entries(rel.lib.pltrelsz))
    /\ rel' = [rel EXCEPT !.pc = "done"]

\* where the library of the runs is loaded, and where its tables lie
LibBase == 4194304
SymtabAddr == 4195328
RelaAddr == 4196352
JmprelAddr == 4197376

\* st_value of the symbols 0 (the undefined symbol), 1 (defined) and
\* 2 (unresolved)
SymValues == <<0, 4096, 0>>

UnknownRelType == 99

\* the entries the tables of the runs are made of
RelEntries ==
    {Elf64Rela(16, 0, R_X86_64_RELATIVE, 32),
     Elf64Rela(24, 0, R_X86_64_RELATIVE, 0 - 8),
     Elf64Rela(32, 1, R_X86_64_GLOB_DAT, 0),
     Elf64Rela(16, 2, R_X86_64_JUMP_SLOT, 0),
     Elf64Rela(40, 1, R_X86_64_64, 4),
     Elf64Rela(16, 0, R_X86_64_64, 32),
     Elf64Rela(16, 1, UnknownRelType, 32),
     Elf64Rela(32, 1, R_X86_64_NONE, 0)}

JmprelTables ==
    {<<>>,
     <<Elf64Rela(48, 1, R_X86_64_JUMP_SLOT, 0)>>,
     <<Elf64Rela(16, 2, R_X86_64_JUMP_SLOT, 0),
       Elf64Rela(16, 1, R_X86_64_JUMP_SLOT, 0)>>}

\* the memory holding the tables `relas` and `jmprels` and the symbols
RelStructs(relas, jmprels) ==
    [a \in {RelaAddr + (k - 1) * RELA_SIZE : k \in 1..Len(relas)}
           \cup {JmprelAddr + (k - 1) * RELA_SIZE : k \in 1..Len(jmprels)}
           \cup {SymtabAddr + (k - 1) * SYM_SIZE : k \in 1..Len(SymValues)}
     |-> IF a >= JmprelAddr THEN jmprels[(a - JmprelAddr) \div RELA_SIZE + 1]
         ELSE IF a >= RelaAddr THEN relas[(a - RelaAddr) \div RELA_SIZE + 1]
         ELSE [st_value |-> SymValues[(a - SymtabAddr) \div SYM_SIZE + 1]]]

\* apply_relocations is called on a library with or without a symbol table
\* and with or without a RELA table
RelInit ==
    /\ KernelInit
    /\ MemInit
    /\ SideIdle
    /\ overflow_checks = FALSE
    /\ elf_img = NoImage
    /\ elf = ElfEntry
    /\ umem = NoMem
    /\ ustack = NoStack
    /\ ctx = Idle
    /\ tmr = Idle
    /\ trap = Idle
    /\ \E relas \in SeqsUpTo(RelEntries, MaxRelocs), jmprels \in JmprelTables,
          symtab \in {0, SymtabAddr}, rela \in {0, RelaAddr} :
           rel = [NoRel EXCEPT
                    !.pc = "rela",
                    !.lib = [base_addr |-> LibBase, symtab |-> symtab,
                             rela |-> rela,
                             relasz |-> Len(relas) * RELA_SIZE,
                             jmprel |-> JmprelAddr,
                             pltrelsz |-> Len(jmprels) * RELA_SIZE],
                    !.structs = RelStructs(relas, jmprels)]

RelFrame ==
    UNCHANGED <<kernelVars, memVars, loaderVars, ctx, tmr, trap, sideVars>>

RelNext ==
    \/ rel_rela /\ RelFrame
    \/ rel_rela_end /\ RelFrame
    \/ rel_jmprel /\ RelFrame
    \/ rel_return /\ RelFrame

RelSpec == RelInit /\ [][RelNext]_vars

\* --------------------------------------------------------- context switch
MaxCtxSteps == 5    \* a run of the context switch engine makes at most this
                    \* many steps

\* `trampoline as usize`, and the return address of the call of
\* switch_context (the instruction after it)
TrampolineAddr == 4096
SwitchRet == 8192

\* the flows that exist when a run starts: 1 is running, 2 is suspended
Flows == {1, 2}

\* the stack buffers init_stack is called on; the second is allocated
\* either right after the first or far from it
Bufs == {1, 2}
BufBase1 == 65536
BufLen1 == 264
BufBase2Near == BufBase1 + BufLen1
BufBase2Far == 131072
BufLen2 == 256

\* the entry points and arguments given to init_stack
Entries == {12288, 16384}
Args == {7}

\* the content of memory nobody wrote yet
Fills == {0, 23130}

\* push order and pop order of switch_context
PushOrder == <<"rbx", "rbp", "r12", "r13", "r14", "r15">>
PopOrder == <<"r15", "r14", "r13", "r12", "rbp", "rbx">>
PopOrderSwapped == <<"r15", "r14", "r12", "r13", "rbp", "rbx">>

\* the 64-bit word at address a of machine m
ctx_read(m, a) == IF a \in DOMAIN m.mem THEN m.mem[a] ELSE m.fill

\* push <register r>
ctx_push(m, r) ==
    [m EXCEPT !.cpu.rsp = m.cpu.rsp - 8,
              !.mem = write_u64(m.mem, m.cpu.rsp - 8, m.cpu[r])]

\* pop <register r>
ctx_pop(m, r) ==
    [m EXCEPT !.cpu[r] = ctx_read(m, m.cpu.rsp),
              !.cpu.rsp = m.cpu.rsp + 8]

RECURSIVE push_all(_, _)
push_all(m, rs) ==
    IF rs = <<>> THEN m ELSE push_all(ctx_push(m, Head(rs)), Tail(rs))

RECURSIVE pop_all(_, _)
pop_all(m, rs) ==
    IF rs = <<>> THEN m ELSE pop_all(ctx_pop(m, Head(rs)), Tail(rs))

restore_swapped(m) == pop_all(m, PopOrderSwapped)

\* step 4 of switch_context: restore the callee-saved registers
restore(m) == pop_all(m, PopOrder)

\* call switch_context with rdi = new_sp and rsi = the address of slot
\* `slot`: the machine when switch_context has executed its ret
switch_context(m, new_sp, slot) ==
    LET called == [m EXCEPT !.cpu.rsp = m.cpu.rsp - 8,
                            !.mem = write_u64(m.mem, m.cpu.rsp - 8, SwitchRet)]
        saved == push_all(called, PushOrder)
        stored == [saved EXCEPT !.slots[slot] = saved.cpu.rsp]
        loaded == [stored EXCEPT !.cpu.rsp = new_sp]
        restored == restore(loaded)
    IN  [restored EXCEPT !.cpu.rip = ctx_read(restored, restored.cpu.rsp),
                         !.cpu.rsp = restored.cpu.rsp + 8]

\* stack_top & !0xF
align_down16(a) == a - (a % 16)

\* init_stack(stack, entry_point, arg0) on the buffer of `len` bytes at
\* `base`: the words it writes, as <<address, value>> pairs, and the sp it
\* returns.  Every write goes through ptr.add(sp - base) with ptr the
\* aligned top of the buffer.
init_stack(base, len, entry_point, arg0) ==
    LET stack_top == base + len
        sp0 == align_down16(stack_top)
        ptr == sp0
        sp1 == sp0 - 8
        sp2 == sp1 - 8
        sp3 == sp2 - 8 * 6
        regs_ptr == ptr + (sp3 - base)
    IN  [writes |-> <<<<ptr + (sp1 - base), 0>>,
                      <<ptr + (sp2 - base), TrampolineAddr>>,
                      <<regs_ptr, 0>>,
                      <<regs_ptr + 8, 0>>,
                      <<regs_ptr + 16, arg0>>,
                      <<regs_ptr + 24, entry_point>>,
                      <<regs_ptr + 32, 0>>,
                      <<regs_ptr + 40, 0>>>>,
         sp |-> sp3]

RECURSIVE write_all(_, _)
write_all(mem, ws) ==
    IF ws = <<>> THEN mem
    ELSE write_all(write_u64(mem, Head(ws)[1], Head(ws)[2]), Tail(ws))

CalleeSaved == {"rbx", "rbp", "r12", "r13", "r14", "r15"}

\* what a flow's registers and stack pointer were when it called
\* switch_context
Snapshot(cpu) ==
    [rbx |-> cpu.rbx, rbp |-> cpu.rbp, r12 |-> cpu.r12, r13 |-> cpu.r13,
     r14 |-> cpu.r14, r15 |-> cpu.r15, rsp |-> cpu.rsp]

\* flow 1 as it runs when a run starts, and flow 2 as it was when it called
\* switch_context
Flow1Cpu ==
    [rbx |-> 11, rbp |-> 12, r12 |-> 13, r13 |-> 14, r14 |-> 15, r15 |-> 16,
     rsp |-> 32736, rip |-> 0, rdi |-> 0]
Flow2Cpu ==
    [rbx |-> 21, rbp |-> 22, r12 |-> 23, r13 |-> 24, r14 |-> 25, r15 |-> 26,
     rsp |-> 49088, rip |-> 0, rdi |-> 0]

\* the machine before flow 2 made its call
NoCtx ==
    [pc |-> "run", cpu |-> Flow1Cpu, mem |-> NoMem, fill |-> 0,
     slots |-> [f \in Flows |-> 0], cur |-> 0, suspended |-> {},
     snap |-> [f \in Flows |-> Snapshot(Flow1Cpu)], resumed |-> 0,
     entered |-> 0, base2 |-> 0,
     bufs |-> [b \in Bufs |-> [sp |-> 0, entry |-> 0, arg |-> 0,
                               started |-> FALSE]],
     steps |-> 0]

\* the machine with flow 1 running and flow 2 suspended by switch_context
CtxStart(fill, base2) ==
    LET m2 == [NoCtx EXCEPT !.cpu = Flow2Cpu, !.fill = fill]
        m1 == switch_context(m2, 0, 2)
    IN  [m1 EXCEPT !.pc = "run", !.cpu = Flow1Cpu, !.cur = 1,
                   !.suspended = {2},
                   !.snap = [f \in Flows |->
                               IF f = 2 THEN Snapshot(Flow2Cpu)
                               ELSE Snapshot(Flow1Cpu)],
                   !.base2 = base2]

BufBase(b) == IF b = 1 THEN BufBase1 ELSE ctx.base2
BufLen(b) == IF b = 1 THEN BufLen1 ELSE BufLen2

CtxStep == ctx.steps < MaxCtxSteps /\ ctx.pc = "run"

\* main: proc.stack_pointer = init_stack(&mut proc.stack, entry, base)
ctx_init_stack(b, entry_point, arg0) ==
    /\ CtxStep
    /\ ctx.bufs[b].sp = 0
    /\ LET r == init_stack(BufBase(b), BufLen(b), entry_point, arg0)
       IN  ctx' = [ctx EXCEPT
                     !.mem = write_all(ctx.mem, r.writes),
                     !.bufs[b] = [sp |-> r.sp, entry |-> entry_point,
                                  arg |-> arg0, started |-> FALSE],
                     !.resumed = 0, !.entered = 0,
                     !.steps = ctx.steps + 1]

\* the running flow computes: it changes a callee-saved register
ctx_run(r) ==
    /\ CtxStep
    /\ ctx.cur \in Flows
    /\ ctx' = [ctx EXCEPT !.cpu[r] = 100 + ctx.steps,
                          !.resumed = 0, !.entered = 0,
                          !.steps = ctx.steps + 1]

\* the running flow enters a deeper frame of its stack and writes a local
ctx_call ==
    /\ CtxStep
    /\ ctx.cur \in Flows
    /\ ctx' = [ctx EXCEPT !.cpu.rsp = ctx.cpu.rsp - 16,
                          !.mem = write_u64(ctx.mem, ctx.cpu.rsp - 16,
                                            200 + ctx.steps),
                          !.resumed = 0, !.entered = 0,
                          !.steps = ctx.steps + 1]

\* the running flow calls switch_context(slot of flow `to`, its own slot)
ctx_switch(to) ==
    /\ CtxStep
    /\ ctx.cur \in Flows
    /\ to \in ctx.suspended
    /\ LET m == switch_context(ctx, ctx.slots[to], ctx.cur)
       IN  ctx' = [m EXCEPT
                     !.snap[ctx.cur] = Snapshot(ctx.cpu),
                     !.suspended = (ctx.suspended \ {to}) \cup {ctx.cur},
                     !.cur = to, !.resumed = to, !.entered = 0,
                     !.steps = ctx.steps + 1]

\* the running flow calls switch_context(initial_sp of buffer b, its own
\* slot): the first switch into a stack made by init_stack
ctx_switch_new(b) ==
    /\ CtxStep
    /\ ctx.cur \in Flows
    /\ ctx.bufs[b].sp # 0 /\ ~ctx.bufs[b].started
    /\ LET m == switch_context(ctx, ctx.bufs[b].sp, ctx.cur)
       IN  ctx' = [m EXCEPT
                     !.snap[ctx.cur] = Snapshot(ctx.cpu),
                     !.suspended = ctx.suspended \cup {ctx.cur},
                     !.bufs[b].started = TRUE,
                     !.cur = 0, !.resumed = 0, !.entered = b,
                     !.pc = IF m.cpu.rip = TrampolineAddr THEN "trampoline"
                            ELSE "derailed",
                     !.steps = ctx.steps + 1]

\* trampoline: entry = r12, arg = r13, entry(arg)
ctx_trampoline ==
    /\ ctx.pc = "trampoline"
    /\ ctx' = [ctx EXCEPT !.pc = "entry",
                          !.cpu.rip = ctx.cpu.r12,
                          !.cpu.rdi = ctx.cpu.r13,
                          !.cpu.rsp = ctx.cpu.rsp - 8,
                          !.mem = write_u64(ctx.mem, ctx.cpu.rsp - 8,
                                            TrampolineAddr),
                          !.steps = ctx.steps + 1]

CtxInit ==
    /\ KernelInit
    /\ MemInit
    /\ SideIdle
    /\ overflow_checks = FALSE
    /\ elf_img = NoImage
    /\ elf = ElfEntry
    /\ umem = NoMem
    /\ ustack = NoStack
    /\ rel = NoRel
    /\ tmr = Idle
    /\ trap = Idle
    /\ \E fill \in Fills, base2 \in {BufBase2Near, BufBase2Far} :
           ctx = CtxStart(fill, base2)

CtxFrame ==
    UNCHANGED <<kernelVars, memVars, loaderVars, rel, tmr, trap, sideVars>>

CtxNext ==
    \/ \E b \in Bufs, e \in Entries, a \in Args :
           ctx_init_stack(b, e, a) /\ CtxFrame
    \/ \E r \in {"rbp", "r12"} : ctx_run(r) /\ CtxFrame
    \/ ctx_call /\ CtxFrame
    \/ \E to \in Flows : ctx_switch(to) /\ CtxFrame
    \/ \E b \in Bufs : ctx_switch_new(b) /\ CtxFrame
    \/ ctx_trampoline /\ CtxFrame

CtxSpec == CtxInit /\ [][CtxNext]_vars

\* ------------------------------------------------- timer interrupt handler
MaxTicks == 4       \* at most this many timer interrupts are delivered

\* the processes main spawns before it enables interrupts
Pids == {1, 2}

\* the stack pointer init_stack returned for process p, and the stack
\* pointer a flow has inside the timer handler (0 is the boot flow)
InitSp(p) == 65536 * p + 192
HandlerSp(f) == 32768 + 4096 * f

\* Scheduler::schedule: round robin; pops the head of the queue, requeues
\* the previous running process at the tail, returns the next pid (0 for
\* None when the queue is empty)
Scheduler_schedule(s) ==
    IF s.queue = <<>> THEN [next |-> 0, sched |-> s]
    ELSE [next |-> Head(s.queue),
          sched |-> [s EXCEPT
                       !.current_pid = Head(s.queue),
                       !.queue = Tail(s.queue) \o
                                 (IF s.current_pid # 0
                                  THEN <<s.current_pid>> ELSE <<>>)]]

\* Scheduler::get_process_mut(pid).is_some()
has_process(s, pid) == pid \in DOMAIN s.sp

try_lock_always(lock) == TRUE

\* SCHEDULER.try_lock() returns Some
try_lock_ok(lock) == lock = "free"

drop_guard_kept(lock) == lock

\* drop(sched_lock), or the guard going out of scope
drop_guard(lock) == "free"

\* the locals of a handler invocation
NoHandler ==
    [prev_pid |-> 0, next_pid |-> 0, old_slot |-> 0, new_sp |-> 0,
     contended |-> FALSE, trace |-> <<>>]

\* the run queues a run starts with
StartQueues == {<<>>, <<1>>, <<1, 2>>}

\* the machine when main has stored the scheduler and enabled interrupts
TimerStart(queue) ==
    [pc |-> "none", lock |-> "free",
     sched |-> [current_pid |-> 0, queue |-> queue,
                sp |-> [p \in Pids |-> InitSp(p)]],
     IDLE_STACK_POINTER |-> 0,
     h |-> NoHandler, running |-> 0, started |-> {},
     intr |-> TRUE, in_service |-> FALSE,
     ticks |-> 0, eoi |-> 0, switches |-> 0, lock_at_switch |-> "free",
     at_fire |-> [lock |-> "free", current_pid |-> 0,
                  sp |-> [p \in Pids |-> InitSp(p)],
                  IDLE_STACK_POINTER |-> 0, queue |-> queue,
                  eoi |-> 0, switches |-> 0]]

\* the timer interrupt is delivered: the processor enters the handler with
\* interrupts disabled
tmr_fire ==
    /\ tmr.pc = "none"
    /\ tmr.intr /\ ~tmr.in_service
    /\ tmr.ticks < MaxTicks
    /\ tmr' = [tmr EXCEPT
                 !.pc = "entry", !.intr = FALSE, !.in_service = TRUE,
                 !.ticks = tmr.ticks + 1,
                 !.h = [NoHandler EXCEPT !.contended = tmr.lock # "free"],
                 !.at_fire = [lock |-> tmr.lock,
                              current_pid |-> tmr.sched.current_pid,
                              sp |-> tmr.sched.sp,
                              IDLE_STACK_POINTER |-> tmr.IDLE_STACK_POINTER,
                              queue |-> tmr.sched.queue,
                              eoi |-> tmr.eoi, switches |-> tmr.switches]]

\* if let Some(mut sched_lock) = SCHEDULER.try_lock()
tmr_try_lock ==
    /\ tmr.pc = "entry"
    /\ IF try_lock_ok(tmr.lock)
       THEN tmr' = [tmr EXCEPT !.pc = "locked", !.lock = "handler",
                               !.h.trace = <<"acquire">>]
       ELSE tmr' = [tmr EXCEPT !.pc = "eoi"]

\* prev_pid = sched.current_pid; sched.schedule(); the two slots resolved
tmr_schedule ==
    /\ tmr.pc = "locked"
    /\ LET prev_pid == tmr.sched.current_pid
           r == Scheduler_schedule(tmr.sched)
       IN  IF r.next = 0
           THEN tmr' = [tmr EXCEPT
                          !.pc = "eoi", !.sched = r.sched,
                          !.lock = drop_guard(tmr.lock),
                          !.h.trace = tmr.h.trace \o <<"decide", "release">>]
           ELSE tmr' = [tmr EXCEPT
                          !.pc = "resolved", !.sched = r.sched,
                          !.h.prev_pid = prev_pid,
                          !.h.next_pid = r.next,
                          !.h.old_slot =
                              IF prev_pid # 0 /\ has_process(r.sched, prev_pid)
                              THEN prev_pid ELSE 0,
                          !.h.new_sp = r.sched.sp[r.next],
                          !.h.trace = tmr.h.trace \o <<"decide", "resolve">>]

\* drop(sched_lock)
tmr_drop ==
    /\ tmr.pc = "resolved"
    /\ tmr' = [tmr EXCEPT !.pc = "released",
                          !.lock = drop_guard(tmr.lock),
                          !.h.trace = tmr.h.trace \o <<"release">>]

\* switch_context(new_sp, old_sp_ptr): the flow that ran the handler is
\* suspended in it; a process that ran before resumes after its own call of
\* switch_context, a process that never ran starts in trampoline
tmr_switch ==
    /\ tmr.pc = "released"
    /\ LET saved == HandlerSp(tmr.running) - 8 * tmr.ticks
           next == tmr.h.next_pid
       IN  tmr' = [tmr EXCEPT
                     !.sched.sp = IF tmr.h.old_slot = 0 THEN tmr.sched.sp
                                  ELSE [tmr.sched.sp EXCEPT
                                           ![tmr.h.old_slot] = saved],
                     !.IDLE_STACK_POINTER =
                         IF tmr.h.old_slot = 0 THEN saved
                         ELSE tmr.IDLE_STACK_POINTER,
                     !.switches = tmr.switches + 1,
                     !.lock_at_switch = tmr.lock,
                     !.h = [NoHandler EXCEPT
                              !.trace = tmr.h.trace \o <<"switch">>],
                     !.running = next,
                     !.started = tmr.started \cup {next},
                     !.pc = IF next \in tmr.started THEN "eoi" ELSE "none"]

\* PICS.lock().notify_end_of_interrupt(InterruptIndex::Timer.as_u8())
tmr_eoi ==
    /\ tmr.pc = "eoi"
    /\ tmr' = [tmr EXCEPT !.pc = "iret", !.eoi = tmr.eoi + 1,
                          !.in_service = FALSE]

\* the handler returns: iretq restores the interrupted flow's flags
tmr_iret ==
    /\ tmr.pc = "iret"
    /\ tmr' = [tmr EXCEPT !.pc = "none", !.intr = TRUE, !.h = NoHandler]

\* the code the timer interrupts: it takes the SCHEDULER lock
env_lock ==
    /\ tmr.pc = "none"
    /\ tmr.lock = "free"
    /\ tmr' = [tmr EXCEPT !.lock = "env"]

\* and releases it
env_unlock ==
    /\ tmr.pc = "none"
    /\ tmr.lock = "env"
    /\ tmr' = [tmr EXCEPT !.lock = "free"]

\* the entry function of a process, entered through trampoline with
\* interrupts disabled and the timer interrupt not acknowledged, enables
\* interrupts and acknowledges it on its own
guest_unmask ==
    /\ tmr.pc = "none"
    /\ ~tmr.intr
    /\ tmr' = [tmr EXCEPT !.intr = TRUE, !.in_service = FALSE]

TimerInit ==
    /\ KernelInit
    /\ MemInit
    /\ SideIdle
    /\ overflow_checks = FALSE
    /\ elf_img = NoImage
    /\ elf = ElfEntry
    /\ umem = NoMem
    /\ ustack = NoStack
    /\ rel = NoRel
    /\ ctx = Idle
    /\ trap = Idle
    /\ \E queue \in StartQueues : tmr = TimerStart(queue)

TimerFrame ==
    UNCHANGED <<kernelVars, memVars, loaderVars, rel, ctx, trap, sideVars>>

TimerNext ==
    \/ tmr_fire /\ TimerFrame
    \/ tmr_try_lock /\ TimerFrame
    \/ tmr_schedule /\ TimerFrame
    \/ tmr_drop /\ TimerFrame
    \/ tmr_switch /\ TimerFrame
    \/ tmr_eoi /\ TimerFrame
    \/ tmr_iret /\ TimerFrame
    \/ env_lock /\ TimerFrame
    \/ env_unlock /\ TimerFrame
    \/ guest_unmask /\ TimerFrame

TimerSpec == TimerInit /\ [][TimerNext]_vars

\* the timer keeps interrupting while interrupts are enabled, the handler
\* runs on to its end, and whoever holds the SCHEDULER lock releases it;
\* nothing is assumed of what the entry function of a process does
TimerFair ==
    /\ WF_vars(tmr_fire /\ TimerFrame)
    /\ WF_vars(tmr_try_lock /\ TimerFrame)
    /\ WF_vars(tmr_schedule /\ TimerFrame)
    /\ WF_vars(tmr_drop /\ TimerFrame)
    /\ WF_vars(tmr_switch /\ TimerFrame)
    /\ WF_vars(tmr_eoi /\ TimerFrame)
    /\ WF_vars(tmr_iret /\ TimerFrame)
    /\ WF_vars(env_unlock /\ TimerFrame)

TimerLiveSpec == TimerInit /\ [][TimerNext]_vars /\ TimerFair

\* ------------------------------------------------------------ syscall trap
\* the value a register has after code that does not preserve it
Junk == 23130

\* what rip and rflags are when user code executes the syscall instruction
\* (rip is the address of the next instruction)
UserRip == 20480
UserRflags == 514

\* System V: the registers a called function must preserve, and the ones it
\* may overwrite (rax carries its result)
CalleeSavedX86 == {"rbx", "rbp", "r12", "r13", "r14", "r15"}
CallerSavedX86 == {"rdi", "rsi", "rdx", "rcx", "r8", "r9", "r10", "r11"}

\* AAPCS64: the registers a called function may overwrite, among the ones of
\* the model
CallerSavedA64 == {"x0", "x1", "x2", "x8", "x9"}

\* the user's registers at a syscall instruction on x86_64
UserRegsX86(nr, a0, a3) ==
    [rax |-> nr, rdi |-> a0, rsi |-> 5, rdx |-> 6, r10 |-> a3, r8 |-> 8,
     r9 |-> 9, rcx |-> 3, r11 |-> 11, rbx |-> 31, rbp |-> 32, r12 |-> 33,
     r13 |-> 34, r14 |-> 35, r15 |-> 36, rsp |-> 28672,
     rip |-> UserRip, rflags |-> UserRflags]

\* the user's registers at an svc instruction on aarch64
UserRegsA64(nr, a0) ==
    [x8 |-> nr, x0 |-> a0, x1 |-> 5, x2 |-> 6, x9 |-> 9, x19 |-> 19,
     x30 |-> 30, sp |-> 28672, pc |-> UserRip]

NoTrap(arch, regs) ==
    [pc |-> "user", arch |-> arch, regs |-> regs, user0 |-> regs,
     stack |-> <<>>, disp |-> [nr |-> 0, arg0 |-> 0, arg1 |-> 0, arg2 |-> 0],
     ret |-> 0, mode |-> "user"]

\* registers `regs` after a call of a function that returns `ret` in `out`
\* and leaves `junked` of the registers it may overwrite with other content
after_call(regs, out, ret, junked) ==
    [r \in DOMAIN regs |->
        IF r = out THEN ret ELSE IF r \in junked THEN Junk ELSE regs[r]]

\* the syscall instruction: rcx <- rip, r11 <- rflags, rip <- LSTAR
trap_syscall ==
    /\ trap.pc = "user" /\ trap.arch = "x86_64"
    /\ trap' = [trap EXCEPT
                  !.pc = "entry", !.mode = "kernel",
                  !.user0 = trap.regs,
                  !.regs.rcx = trap.regs.rip,
                  !.regs.r11 = trap.regs.rflags]

\* syscall_entry up to the call: eight pushes, mov rcx, r10
trap_entry ==
    /\ trap.pc = "entry"
    /\ trap' = [trap EXCEPT
                  !.pc = "call",
                  !.stack = <<trap.regs.rbx, trap.regs.rbp, trap.regs.r12,
                              trap.regs.r13, trap.regs.r14, trap.regs.r15,
                              trap.regs.rcx, trap.regs.r11>>,
                  !.regs.rsp = trap.regs.rsp - 64,
                  !.regs.rcx = trap.regs.r10]

\* call syscall_dispatch: an extern "C" function takes nr, arg0, arg1, arg2
\* from rdi, rsi, rdx, rcx; it calls dispatch(nr, arg0, arg1, arg2) and
\* returns its result in rax
trap_dispatch(ret, junked) ==
    /\ trap.pc = "call"
    /\ trap' = [trap EXCEPT
                  !.pc = "return",
                  !.disp = [nr |-> trap.regs.rdi, arg0 |-> trap.regs.rsi,
                            arg1 |-> trap.regs.rdx, arg2 |-> trap.regs.rcx],
                  !.ret = ret,
                  !.regs = after_call(trap.regs, "rax", ret, junked)]

\* syscall_entry after the call: eight pops, sysretq (rip <- rcx,
\* rflags <- r11)
trap_return ==
    /\ trap.pc = "return"
    /\ trap' = [trap EXCEPT
                  !.pc = "back", !.mode = "user",
                  !.stack = <<>>,
                  !.regs = [trap.regs EXCEPT
                              !.r11 = trap.stack[8], !.rcx = trap.stack[7],
                              !.r15 = trap.stack[6], !.r14 = trap.stack[5],
                              !.r13 = trap.stack[4], !.r12 = trap.stack[3],
                              !.rbp = trap.stack[2], !.rbx = trap.stack[1],
                              !.rsp = trap.regs.rsp + 64,
                              !.rip = trap.stack[7],
                              !.rflags = trap.stack[8]]]

\* svc on aarch64: the vector branches to sync_lower_el_handler, compiled
\* code that saves no user register and runs before handle_svc reads any
trap_svc(junked) ==
    /\ trap.pc = "user" /\ trap.arch = "aarch64"
    /\ trap' = [trap EXCEPT
                  !.pc = "svc", !.mode = "kernel",
                  !.user0 = trap.regs,
                  !.regs = after_call(trap.regs, "x9", Junk, junked)]

\* handle_svc: nr, arg0, arg1, arg2 read from x8, x0, x1, x2; dispatch;
\* mov x0, result
trap_handle_svc(ret, junked) ==
    /\ trap.pc = "svc"
    /\ trap' = [trap EXCEPT
                  !.pc = "svc_done",
                  !.disp = [nr |-> trap.regs.x8, arg0 |-> trap.regs.x0,
                            arg1 |-> trap.regs.x1, arg2 |-> trap.regs.x2],
                  !.ret = ret,
                  !.regs = after_call(trap.regs, "x0", ret, junked)]

\* handle_svc and sync_lower_el_handler return with ret: the processor
\* goes on at the address in x30, still in kernel mode (no eret is executed)
trap_svc_leave ==
    /\ trap.pc = "svc_done"
    /\ trap' = [trap EXCEPT !.pc = "lost", !.regs.pc = trap.regs.x30]

\* what dispatch may return, and which registers the called code overwrites
TrapRets == {0, 0 - ENOSYS}
JunkedX86 == {{}, CallerSavedX86} \cup {{r} : r \in CallerSavedX86}
JunkedA64 == {{}, {"x8"}, {"x0", "x1"}, CallerSavedA64}

TrapInit ==
    /\ KernelInit
    /\ MemInit
    /\ SideIdle
    /\ overflow_checks = FALSE
    /\ elf_img = NoImage
    /\ elf = ElfEntry
    /\ umem = NoMem
    /\ ustack = NoStack
    /\ rel = NoRel
    /\ ctx = Idle
    /\ tmr = Idle
    /\ \/ \E nr \in {SYS_GETPID, SYS_BRK}, a0 \in {0, SYS_GETPID},
             a3 \in {6, 10} :
              trap = NoTrap("x86_64", UserRegsX86(nr, a0, a3))
       \/ \E nr \in {SYS_GETPID, SYS_BRK}, a0 \in {0, SYS_GETPID} :
              trap = NoTrap("aarch64", UserRegsA64(nr, a0))

TrapFrame ==
    UNCHANGED <<kernelVars, memVars, loaderVars, rel, ctx, tmr, sideVars>>

TrapNext ==
    \/ trap_syscall /\ TrapFrame
    \/ trap_entry /\ TrapFrame
    \/ \E ret \in TrapRets, junked \in JunkedX86 :
           trap_dispatch(ret, junked) /\ TrapFrame
    \/ trap_return /\ TrapFrame
    \/ \E junked \in JunkedA64 : trap_svc(junked) /\ TrapFrame
    \/ \E ret \in TrapRets, junked \in JunkedA64 :
           trap_handle_svc(ret, junked) /\ TrapFrame
    \/ trap_svc_leave /\ TrapFrame

TrapSpec == TrapInit /\ [][TrapNext]_vars

\* ------------------------------------------------------------ page table
MaxPageCalls == 2   \* make_user_accessible is called at most this often

\* the pages of the table: the first four of the brk window
FirstPage == BRK_START \div PAGE_SIZE
Pages == FirstPage..(FirstPage + 3)

\* Page::<Size4KiB>::containing_address(VirtAddr::new(addr))
containing_address(addr) == addr \div PAGE_SIZE

\* Page::range_inclusive(start, end): empty when start lies after end
range_inclusive(start_page, end_page) == start_page..end_page

\* mapper.translate(page.start_address()) is TranslateResult::Mapped
translate_mapped(page) == page \in pg.mapped

\* the pages an x86_64 make_user_accessible(start_addr, len) flags: every
\* mapped page from the one holding start_addr to the one holding
\* start_addr + len, both included
flagged_pages(start_addr, len) ==
    {page \in range_inclusive(containing_address(start_addr),
                              containing_address(start_addr + len)) :
         translate_mapped(page)}

\* crate::mm::paging::make_user_accessible(start_addr, len) on x86_64:
\* update_flags(page, flags | USER_ACCESSIBLE) on each of those pages
pg_make_user_accessible(start_addr, len) ==
    /\ pg.pc = "walk"
    /\ pg.calls < MaxPageCalls
    /\ pg' = [pg EXCEPT
                !.user = @ \cup flagged_pages(start_addr, len),
                !.calls = @ + 1,
                !.start_addr = start_addr,
                !.len = len,
                !.before = pg.user,
                !.repeat = pg.calls > 0 /\ start_addr = pg.start_addr
                           /\ len = pg.len,
                !.same = pg.user \cup flagged_pages(start_addr, len)
                         = pg.user]

\* the ranges make_user_accessible is called on: from a page boundary and
\* from inside a page; empty, inside one page, ending on a page boundary,
\* and crossing one
PageStarts == {BRK_START, BRK_START + 1, BRK_START + PAGE_SIZE}
PageLens == {0, 1, PAGE_SIZE - 1, PAGE_SIZE, PAGE_SIZE + 1}

\* the table maps any of the pages, some of them user-accessible already
PageInit ==
    /\ KernelInit
    /\ MemInit
    /\ overflow_checks = FALSE
    /\ LoaderIdle
    /\ lk = Idle
    /\ \E mapped \in SUBSET Pages :
           \E user \in SUBSET mapped :
               pg = [pc |-> "walk", mapped |-> mapped, user |-> user,
                     calls |-> 0, start_addr |-> 0, len |-> 0,
                     before |-> user, repeat |-> FALSE, same |-> TRUE]

PageFrame == UNCHANGED <<kernelVars, memVars, loaderVars, archVars, lk>>

PageNext ==
    \/ \E start_addr \in PageStarts, len \in PageLens :
           pg_make_user_accessible(start_addr, len) /\ PageFrame

PageSpec == PageInit /\ [][PageNext]_vars

\* --------------------------------------------------------- handler locks
MaxLockCalls == 2   \* dispatch is called at most this often

\* syscall numbers of the handlers that lock, spin or do not return
SYS_READ == 0

SYS_WRITE == 1

SYS_LSEEK == 8

SYS_DUP == 32

SYS_DUP2 == 33

SYS_NANOSLEEP == 35

SYS_CLONE == 56

SYS_FORK == 57

SYS_EXECVE == 59

SYS_EXIT == 60

\* for _ in 0..10000 { core::hint::spin_loop(); }
SPIN_ITERS == 10000

\* what a handler does to the spin locks, in program order: it takes a
\* lock, drops a guard, spins, or stops returning
Acquire(l) == [op |-> "lock", lock |-> l]
Release(l) == [op |-> "drop", lock |-> l]
SpinLoop == [op |-> "spin", lock |-> "none"]
NoReturn == [op |-> "halt", lock |-> "none"]

\* let current_lock = CURRENT_TASK.lock();
\* if let Some(task_arc) = current_lock.as_ref() { let task = task_arc.lock(); .. }
\* and both guards going out of scope, the inner one first
with_current_task(current) ==
    IF current
    THEN <<Acquire("CURRENT_TASK"), Acquire("task"), Release("task"),
           Release("CURRENT_TASK")>>
    ELSE <<Acquire("CURRENT_TASK"), Release("CURRENT_TASK")>>

\* queue::spawn_task: ALL_TASKS.lock().push(..); RUN_QUEUE.lock()..push_back(..)
spawn_task_locks ==
    <<Acquire("ALL_TASKS"), Release("ALL_TASKS"),
      Acquire("RUN_QUEUE"), Release("RUN_QUEUE")>>

\* sys_fork: the current-task guard is dropped before the parent is locked,
\* the parent's guard before spawn_task is called
sys_fork_locks(current) ==
    IF current
    THEN <<Acquire("CURRENT_TASK"), Release("CURRENT_TASK"),
           Acquire("task"), Release("task")>> \o spawn_task_locks
    ELSE <<Acquire("CURRENT_TASK"), Release("CURRENT_TASK")>>

\* sys_exit: the task guard ends with the if-let block, the current-task
\* guard lives on into the loop that never ends
sys_exit_locks(current) ==
    IF current
    THEN <<Acquire("CURRENT_TASK"), Acquire("task"), Release("task"),
           NoReturn>>
    ELSE <<Acquire("CURRENT_TASK"), NoReturn>>

\* sys_nanosleep(req, _rem)
sys_nanosleep_locks(req) == IF req # 0 THEN <<SpinLoop>> ELSE <<>>

\* sys_execve: an error return, or enter_usermode, which does not return
sys_execve_locks(loaded) == IF loaded THEN <<NoReturn>> ELSE <<>>

\* what dispatch(nr, arg0, ..) runs.  found: fs::open finds the path (open)
\* and load_elf accepts the file (execve); current: CURRENT_TASK is Some.
\* Handlers not listed take no lock and do not loop.
handler_locks(nr, arg0, found, current) ==
    CASE nr \in {SYS_READ, SYS_CLOSE, SYS_LSEEK, SYS_DUP, SYS_DUP2,
                 SYS_GETPID} -> with_current_task(current)
      [] nr = SYS_WRITE ->
             IF arg0 = 1 \/ arg0 = 2 THEN <<>>
             ELSE with_current_task(current)
      [] nr = SYS_OPEN -> IF found THEN with_current_task(current) ELSE <<>>
      [] nr \in {SYS_FORK, SYS_CLONE} -> sys_fork_locks(current)
      [] nr = SYS_EXIT -> sys_exit_locks(current)
      [] nr = SYS_EXECVE -> sys_execve_locks(found)
      [] nr = SYS_NANOSLEEP -> sys_nanosleep_locks(arg0)
      [] OTHER -> <<>>

mutex_drop_kept(held, l) == held

\* a spin::MutexGuard is dropped
mutex_drop(held, l) == held \ {l}

\* spin::Mutex::lock gets through: the lock is free
mutex_free(held, l) == l \notin held

\* no handler runs and no lock is held
NoLocks(current) ==
    [pc |-> "idle", current |-> current, nr |-> 0 - 1, arg0 |-> 0,
     found |-> FALSE, script |-> <<>>, held |-> {}, acquired |-> <<>>,
     spins |-> 0, sleep_ret |-> 0 - 1, calls |-> 0, forked |-> FALSE]

\* the trap path calls dispatch(nr, arg0, arg1, arg2) with interrupts masked
lk_dispatch(nr, arg0, found) ==
    /\ lk.pc = "idle"
    /\ lk.calls < MaxLockCalls
    /\ lk' = [lk EXCEPT
                !.pc = "run", !.nr = nr, !.arg0 = arg0, !.found = found,
                !.script = handler_locks(nr, arg0, found, lk.current),
                !.acquired = <<>>, !.spins = 0, !.calls = lk.calls + 1]

\* X.lock(): the handler goes on once the lock is free, and spins until then
lk_lock ==
    /\ lk.pc = "run"
    /\ lk.script # <<>>
    /\ Head(lk.script).op = "lock"
    /\ mutex_free(lk.held, Head(lk.script).lock)
    /\ lk' = [lk EXCEPT
                !.held = lk.held \cup {Head(lk.script).lock},
                !.acquired = Append(lk.acquired, Head(lk.script).lock),
                !.script = Tail(lk.script)]

\* a guard is dropped
lk_drop ==
    /\ lk.pc = "run"
    /\ lk.script # <<>>
    /\ Head(lk.script).op = "drop"
    /\ lk' = [lk EXCEPT
                !.held = mutex_drop(lk.held, Head(lk.script).lock),
                !.script = Tail(lk.script)]

\* one turn of the loop of sys_nanosleep, or its exit after the last turn
lk_spin ==
    /\ lk.pc = "run"
    /\ lk.script # <<>>
    /\ Head(lk.script).op = "spin"
    /\ IF lk.spins < SPIN_ITERS
       THEN lk' = [lk EXCEPT !.spins = lk.spins + 1]
       ELSE lk' = [lk EXCEPT !.script = Tail(lk.script)]

\* the handler enters the loop of sys_exit, or user mode: it never returns
lk_halt ==
    /\ lk.pc = "run"
    /\ lk.script # <<>>
    /\ Head(lk.script).op = "halt"
    /\ lk' = [lk EXCEPT !.pc = "halted", !.script = <<>>]

\* the handler returns to the trap path
lk_return ==
    /\ lk.pc = "run"
    /\ lk.script = <<>>
    /\ lk' = [lk EXCEPT
                !.pc = "idle",
                !.sleep_ret = IF lk.nr = SYS_NANOSLEEP THEN 0 ELSE @,
                !.forked = \/ lk.forked
                           \/ /\ lk.nr = SYS_FORK
                              /\ lk.acquired = <<"CURRENT_TASK", "task",
                                                 "ALL_TASKS", "RUN_QUEUE">>]

\* the calls of dispatch: <<nr, arg0, found>>.  write goes to the console
\* or to a descriptor, nanosleep gets a null or a real request, open and
\* execve succeed or fail; the other handlers do the same for every argument
LockCalls ==
    {<<nr, 0, FALSE>> : nr \in {SYS_READ, SYS_CLOSE, SYS_LSEEK, SYS_DUP,
                                SYS_DUP2, SYS_GETPID, SYS_FORK, SYS_CLONE,
                                SYS_EXIT, SYS_BRK}}
    \cup {<<SYS_WRITE, fd, FALSE>> : fd \in {1, 3}}
    \cup {<<SYS_NANOSLEEP, req, FALSE>> : req \in {0, 1}}
    \cup {<<nr, 1, found>> : nr \in {SYS_OPEN, SYS_EXECVE},
                             found \in BOOLEAN}

\* the kernel before and after sched::init()
LockInit ==
    /\ KernelInit
    /\ MemInit
    /\ overflow_checks = FALSE
    /\ LoaderIdle
    /\ pg = Idle
    /\ \E current \in BOOLEAN : lk = NoLocks(current)

LockFrame == UNCHANGED <<kernelVars, memVars, loaderVars, archVars, pg>>

LockNext ==
    \/ \E c \in LockCalls : lk_dispatch(c[1], c[2], c[3]) /\ LockFrame
    \/ lk_lock /\ LockFrame
    \/ lk_drop /\ LockFrame
    \/ lk_spin /\ LockFrame
    \/ lk_halt /\ LockFrame
    \/ lk_return /\ LockFrame

LockSpec == LockInit /\ [][LockNext]_vars

\* a handler that was entered keeps running: the processor executes it with
\* interrupts masked (SFMASK clears IF), nothing preempts it
LockFair ==
    /\ WF_vars(lk_lock /\ LockFrame)
    /\ WF_vars(lk_drop /\ LockFrame)
    /\ WF_vars(lk_spin /\ LockFrame)
    /\ WF_vars(lk_halt /\ LockFrame)
    /\ WF_vars(lk_return /\ LockFrame)

LockLiveSpec == LockInit /\ [][LockNext]_vars /\ LockFair

\* ------------------------------------------------------------------ claims
Handles == 1..Len(tasks)

\* C1: after any sequence of Task::new (spawn) and Task::fork calls, every
\* task's pid differs from every other task's pid, and each newly assigned
\* pid is strictly greater than every pid assigned before it (the heap
\* `tasks` is in creation order).
C1_PidsUniqueIncreasing ==
    \A i, j \in Handles : i < j => tasks[i].id < tasks[j].id

\* three tasks exist: one made by Task::new and one by Task::fork after it
C1_Witness ==
    /\ Len(tasks) >= 3
    /\ \E h \in Handles : tasks[h].parent_id # 0
    /\ \E h \in Handles : h > 1 /\ tasks[h].parent_id = 0

\* three tasks, all queued, none terminated
ThreeLive ==
    /\ Len(tasks) = 3
    /\ Len(RUN_QUEUE) = 3
    /\ \A h \in Handles : tasks[h].state # "Terminated"

\* the task after h in spawn order, cyclically (0: none has run yet)
CyclicSucc(h) == IF h >= Len(tasks) THEN 1 ELSE h + 1

\* C2: with three tasks A, B, C spawned in that order and never blocked or
\* terminated, every schedule() call selects the task that follows the
\* running one in the cyclic order A, B, C, A, ...
C2_RoundRobin ==
    [][(last'.op = "schedule" /\ steps' = steps + 1 /\ ThreeLive)
          => CURRENT_TASK' = CyclicSucc(CURRENT_TASK)]_vars

\* C3: when fork returns child_pid to the parent, a task with id child_pid
\* exists whose parent_id is the caller's pid, whose state is Ready, whose
\* descriptor table equals the parent's slot by slot (inode, offset, flags),
\* and which is the last element of the run queue; the parent (and every
\* other task) is unchanged and the order of the queued tasks is preserved.
C3_ForkFrame ==
    [][(last'.op = "fork" /\ last'.ret > 0 /\ steps' = steps + 1) =>
          LET c == Len(tasks')
          IN  /\ c = Len(tasks) + 1
              /\ tasks'[c].id = last'.ret
              /\ tasks'[c].parent_id = tasks[CURRENT_TASK].id
              /\ tasks'[c].state = "Ready"
              /\ Len(tasks'[c].fd_table) = Len(tasks[CURRENT_TASK].fd_table)
              /\ \A i \in 1..Len(tasks[CURRENT_TASK].fd_table) :
                     /\ tasks'[c].fd_table[i].inode =
                            tasks[CURRENT_TASK].fd_table[i].inode
                     /\ tasks'[c].fd_table[i].offset =
                            tasks[CURRENT_TASK].fd_table[i].offset
                     /\ tasks'[c].fd_table[i].flags =
                            tasks[CURRENT_TASK].fd_table[i].flags
              /\ RUN_QUEUE' = Append(RUN_QUEUE, c)
              /\ CURRENT_TASK' = CURRENT_TASK
              /\ \A h \in Handles : tasks'[h] = tasks[h]]_vars

\* fork has just returned a child whose table holds a descriptor that was
\* read, written or sought in the parent
C3_Witness ==
    /\ last.op = "fork"
    /\ last.ret > 0
    /\ \E i \in 1..Len(tasks[Len(tasks)].fd_table) :
           /\ ~IsNone(tasks[Len(tasks)].fd_table[i])
           /\ tasks[Len(tasks)].fd_table[i].offset > 0

\* C4: a forked child's saved context is primed, so that its first switch
\* resumes at the return point of the fork syscall (with return value 0) and
\* never from an unset (zero) saved context.
C4_ChildContextPrimed ==
    \A h \in Handles :
        tasks[h].parent_id # 0 =>
            tasks[h].saved_rip # 0 /\ tasks[h].saved_rsp # 0

\* the edges of the task state machine
StateEdges ==
    {<<"Ready", "Running">>, <<"Running", "Ready">>, <<"Running", "Blocked">>,
     <<"Running", "Terminated">>, <<"Blocked", "Ready">>}

\* C5: every change of a task's state follows an edge of the task state
\* machine, a task reaches Terminated only through exit while it is the
\* running task, and a Terminated task's state never changes again.
C5_StateMachine ==
    [][\A h \in Handles :
          tasks'[h].state # tasks[h].state =>
              /\ <<tasks[h].state, tasks'[h].state>> \in StateEdges
              /\ tasks'[h].state = "Terminated" =>
                     (last'.op = "exit" /\ h = CURRENT_TASK)]_vars

\* C6: in every reachable state no task in the run queue has state
\* Terminated (a task that called exit is no longer queued).
C6_NoTerminatedQueued ==
    \A i \in 1..Len(RUN_QUEUE) : tasks[RUN_QUEUE[i]].state # "Terminated"

\* a successful open or dup stored its descriptor in the lowest-numbered
\* empty slot and returned that index, growing the table by exactly one slot
\* only when no slot was empty, and left every other slot unchanged
C7_LowestSlot ==
    (last'.op \in {"open", "dup"} /\ last'.ret >= 0 /\ steps' = steps + 1) =>
        LET old == tasks[CURRENT_TASK].fd_table
            new == tasks'[CURRENT_TASK].fd_table
            r == last'.ret
            full == \A i \in 1..Len(old) : ~IsNone(old[i])
        IN  /\ r <= Len(old)
            /\ \A i \in 1..r : ~IsNone(old[i])
            /\ r < Len(old) => IsNone(old[r + 1])
            /\ Len(new) = IF full THEN Len(old) + 1 ELSE Len(old)
            /\ ~IsNone(new[r + 1])
            /\ \A i \in 1..Len(old) : i # r + 1 => new[i] = old[i]
            /\ \A h \in Handles : h # CURRENT_TASK => tasks'[h] = tasks[h]

\* C7: add_file stores the descriptor in the lowest-numbered empty slot
\* (growing the table only when none is empty, other slots unchanged), and
\* after close(3) the next open returns 3.
C7_AddFileLowest ==
    [][/\ C7_LowestSlot
       /\ (last'.op = "open" /\ last'.ret >= 0 /\ last'.after_close3)
             => last'.ret = 3]_vars

\* C8: in a task where none of fds 0, 1, 2 has been closed, no open or dup
\* returns 0, 1 or 2.
C8_StdioReserved ==
    (/\ last.op \in {"open", "dup"}
     /\ last.ret >= 0
     /\ CURRENT_TASK \notin stdio_closed)
        => last.ret \notin {0, 1, 2}

\* what sys_read / sys_write on descriptor fd must have done
C9_Post(fd) ==
    IF Populated(fd)
    THEN /\ last'.ret = last'.bytes
         /\ Len(tasks') = Len(tasks)
         /\ tasks'[CURRENT_TASK].fd_table[fd + 1] =
                [tasks[CURRENT_TASK].fd_table[fd + 1] EXCEPT
                     !.offset = @ + last'.bytes]
         /\ \A h \in Handles :
                /\ Len(tasks'[h].fd_table) = Len(tasks[h].fd_table)
                /\ \A i \in 1..Len(tasks[h].fd_table) :
                       (h # CURRENT_TASK \/ i # fd + 1) =>
                           tasks'[h].fd_table[i] = tasks[h].fd_table[i]
    ELSE /\ last'.ret = EBADF
         /\ tasks' = tasks

\* C9: for a non-console fd, sys_read and sys_write return the number of
\* bytes the backing inode reports and advance that descriptor's offset by
\* exactly that number, leaving every other descriptor unchanged; on an
\* empty slot or an fd beyond the table they return -9 and change none.
C9_ReadWriteOffset ==
    [][\A fd \in Fds \ {1, 2}, c \in 0..MaxCount :
          (sys_read(fd, c) \/ sys_write(fd, c)) => C9_Post(fd)]_vars

\* a read transferred bytes and moved its descriptor's offset while a second
\* descriptor is open
C9_Witness ==
    /\ last.op = "read"
    /\ last.ret > 0
    /\ CURRENT_TASK # 0
    /\ \E i, j \in 1..Len(tasks[CURRENT_TASK].fd_table) :
           /\ i # j
           /\ tasks[CURRENT_TASK].fd_table[i].offset = last.ret
           /\ ~IsNone(tasks[CURRENT_TASK].fd_table[j])

\* C10: after dup(old) or dup2(old, new) succeeds, the two slots' offsets
\* stay equal until one of them is closed or overwritten (stated for the
\* most recent alias).
C10_SharedOffset ==
    \A p \in dup_pairs :
        tasks[p[1]].fd_table[p[2] + 1].offset =
            tasks[p[1]].fd_table[p[3] + 1].offset

\* C11: dispatch is total: for every syscall number that has no match arm it
\* returns -38 and changes no kernel state (task records, run queue,
\* descriptor tables, program-break cursor, time counter).
C11_DispatchTotal ==
    [][(sys_nr' \notin HandlerTable /\ steps' = steps + 1) =>
          /\ sys_ret' = 0 - 38
          /\ ~panicked'
          /\ tasks' = tasks
          /\ UNCHANGED <<NEXT_PID, ALL_TASKS, RUN_QUEUE, CURRENT_TASK>>
          /\ UNCHANGED <<ROOT, content_len, halted>>
          /\ PROGRAM_BREAK' = PROGRAM_BREAK
          /\ BOOT_TIME' = BOOT_TIME
          /\ map_reqs' = map_reqs]_vars

\* an unknown number was dispatched after the cursor, the time counter and
\* the current task's descriptor table had all been changed
C11_Witness ==
    /\ sys_nr \notin HandlerTable
    /\ sys_nr >= 0
    /\ sys_ret = ENOSYS
    /\ PROGRAM_BREAK # BRK_START
    /\ BOOT_TIME > 0
    /\ \E i \in 1..Len(tasks[1].fd_table) : ~IsNone(tasks[1].fd_table[i])

\* C12: after any sequence of brk and mmap calls the program-break cursor
\* stays inside the window [0x800000, 0x1000000], so brk(0) never reports a
\* value outside it.
C12_CursorInWindow ==
    /\ PROGRAM_BREAK >= 8388608
    /\ PROGRAM_BREAK <= 16777216
    /\ (sys_nr = SYS_BRK /\ sys_ret >= 0) =>
           (sys_ret >= 8388608 /\ sys_ret <= 16777216)

\* C13: brk(0) returns the current cursor and leaves it unchanged; brk(addr)
\* with a nonzero addr outside the window returns -12, leaves the cursor
\* unchanged and requests no mapping; brk(addr) with addr inside the window
\* sets the cursor to addr and returns addr.
C13_BrkContract ==
    [][\A addr \in BrkArgs :
          dispatch(SYS_BRK, addr, 0, 0) =>
              IF addr = 0
              THEN sys_ret' = PROGRAM_BREAK /\ PROGRAM_BREAK' = PROGRAM_BREAK
              ELSE IF addr < 8388608 \/ addr > 16777216
              THEN /\ sys_ret' = 0 - 12
                   /\ PROGRAM_BREAK' = PROGRAM_BREAK
                   /\ map_reqs' = map_reqs
              ELSE /\ ~panicked'
                   /\ PROGRAM_BREAK' = addr
                   /\ sys_ret' = addr]_vars

\* C14: mmap(0, len) returns the value the shared cursor had before the call
\* and advances the cursor by len rounded up to a multiple of 4096, so a
\* following brk(0) returns the advanced value; mmap(addr, len) with addr
\* nonzero returns addr and leaves the cursor unchanged.
C14_MmapCursor ==
    [][/\ \A a \in MmapArgs :
              dispatch(SYS_MMAP, a[1], a[2], 0) =>
                  IF a[1] = 0
                  THEN /\ sys_ret' = PROGRAM_BREAK
                       /\ PROGRAM_BREAK' >= PROGRAM_BREAK + a[2]
                       /\ PROGRAM_BREAK' < PROGRAM_BREAK + a[2] + 4096
                       /\ (PROGRAM_BREAK' - PROGRAM_BREAK) % 4096 = 0
                  ELSE /\ sys_ret' = a[1]
                       /\ PROGRAM_BREAK' = PROGRAM_BREAK
       /\ dispatch(SYS_BRK, 0, 0, 0) => sys_ret' = PROGRAM_BREAK]_vars

\* brk(0) has just reported the cursor that one mmap(0, 4097) advanced by
\* two pages (no brk argument of the model lies two pages into the window)
C14_Witness ==
    /\ sys_nr = SYS_BRK
    /\ sys_ret = PROGRAM_BREAK
    /\ PROGRAM_BREAK > BRK_START
    /\ PROGRAM_BREAK = BRK_START + 2 * PAGE_SIZE
    /\ map_reqs = <<[start |-> BRK_START, len |-> 2 * PAGE_SIZE]>>

\* the values load_elf returns as Err(..)
ElfErrors ==
    {"Data too small for ELF header", "Invalid ELF magic", "Not a 64-bit ELF",
     "Program header out of bounds"}

\* C15: load_elf returns an error, without requesting any memory mapping and
\* without writing any target memory, whenever the buffer is shorter than the
\* 64-byte header, or its first four bytes are not 7F 45 4C 46, or its class
\* byte is not 2.
C15_BadHeaderRejected ==
    (/\ elf.pc # "start"
     /\ \/ elf_img.len < 64
        \/ elf_img.magic # <<127, 69, 76, 70>>
        \/ elf_img.class # 2)
        => /\ elf.pc = "done"
           /\ elf.result \in ElfErrors
           /\ map_reqs = <<>>
           /\ umem = NoMem

\* a full-length buffer with a zeroed magic, or with class 1, that holds a
\* PT_LOAD entry has been rejected
C15_Witness ==
    /\ elf.pc = "done"
    /\ elf_img.len > EHDR_SIZE + PHDR_SIZE
    /\ \/ elf_img.magic = <<0, 0, 0, 0>> /\ elf.result = "Invalid ELF magic"
       \/ elf_img.class = 1 /\ elf.result = "Not a 64-bit ELF"
    /\ \E k \in 1..Len(elf_img.table) : elf_img.table[k].p_type = PT_LOAD

\* program header i of the buffer, for a header table inside the buffer
HeaderAt(i) ==
    read_phdr(elf_img, elf_img.e_phoff + i * elf_img.e_phentsize)

\* the indices of the PT_LOAD program headers
LoadIdx == {i \in 0..(elf_img.e_phnum - 1) : HeaderAt(i).p_type = PT_LOAD}

\* the memory range [vaddr, vaddr + p_memsz) of PT_LOAD header i
LoadRange(i) ==
    (elf_img.base_addr + HeaderAt(i).p_vaddr) ..
        (elf_img.base_addr + HeaderAt(i).p_vaddr + HeaderAt(i).p_memsz - 1)

\* a valid image: a 64-bit ELF whose program headers and segment file ranges
\* lie inside the buffer, with p_filesz <= p_memsz and disjoint segments
ValidImage ==
    /\ elf_validate(elf_img) = "ok"
    /\ \A i \in 0..(elf_img.e_phnum - 1) :
           /\ elf_img.e_phoff + i * elf_img.e_phentsize + PHDR_SIZE
                  <= elf_img.len
           /\ HeaderAt(i).p_type \in {PT_LOAD, PT_INTERP} =>
                  HeaderAt(i).p_offset + HeaderAt(i).p_filesz <= elf_img.len
           /\ HeaderAt(i).p_type = PT_LOAD =>
                  HeaderAt(i).p_filesz <= HeaderAt(i).p_memsz
    /\ \A i, j \in LoadIdx : i # j => LoadRange(i) \cap LoadRange(j) = {}

\* C16: for a valid image, load_elf returns exactly one segment per PT_LOAD
\* program header, in program-header order, with vaddr = base_addr + p_vaddr
\* and size = p_memsz; after the load the p_filesz bytes at vaddr equal the
\* file bytes [p_offset, p_offset + p_filesz) and every byte in
\* [vaddr + p_filesz, vaddr + p_memsz) is zero.
C16_SegmentsLoaded ==
    (elf.pc = "done" /\ ValidImage) =>
        /\ elf.result = "Ok"
        /\ Len(elf.segments) = Cardinality(LoadIdx)
        /\ \A i \in LoadIdx :
               LET h == HeaderAt(i)
                   k == Cardinality({j \in LoadIdx : j <= i})
                   vaddr == elf_img.base_addr + h.p_vaddr
               IN  /\ elf.segments[k] = [vaddr |-> vaddr, size |-> h.p_memsz]
                   /\ \A n \in 0..(h.p_memsz - 1) :
                          /\ vaddr + n \in DOMAIN umem
                          /\ umem[vaddr + n] =
                                 IF n < h.p_filesz
                                 THEN SrcByte(h.p_offset + n)
                                 ELSE 0

\* a valid image with two PT_LOAD headers, one of them zero-filled and one
\* copied from the payload behind the header table, has been loaded
C16_Witness ==
    /\ elf.pc = "done"
    /\ ValidImage
    /\ Len(elf.segments) = 2
    /\ elf.segments[1].vaddr # elf.segments[2].vaddr
    /\ \E i \in LoadIdx : HeaderAt(i).p_memsz > HeaderAt(i).p_filesz
    /\ \E i \in LoadIdx : HeaderAt(i).p_offset > 0

\* C17: load_elf reads program header i only when the 56 bytes at offset
\* e_phoff + i * e_phentsize lie wholly inside the buffer, and otherwise
\* returns the error "Program header out of bounds", also when
\* e_phoff + i * e_phentsize + 56 does not fit the machine word.
C17_PhdrBounds ==
    /\ elf.read_off >= 0 => elf.read_off + 56 <= elf_img.len
    /\ ~elf.missed

\* C18: for every byte buffer load_elf finishes with Ok or an error value and
\* never faults or panics; a PT_LOAD or PT_INTERP entry whose file range is
\* not contained in the buffer makes it return an error.
C18_NoPanic ==
    /\ ~panicked
    /\ elf.pc = "done" => elf.result \in ElfErrors \cup {"Ok"}

\* the value at address a of a memory m, -1 where nothing was written
Rd(m, a) == IF a \in DOMAIN m THEN m[a] ELSE 0 - 1

\* the k-th 8-byte word above the returned stack pointer
StackWord(k) == Rd(ustack.words, ustack.sp + 8 * k)

\* p is non-null and points at a NUL-terminated copy of str that lies above
\* the n-word pointer area and below stack_top
PointsAtCopy(p, str, n) ==
    /\ p # 0
    /\ p >= ustack.sp + 8 * n
    /\ p + Len(str) < ustack.stack_top
    /\ \A j \in 1..Len(str) : Rd(ustack.bytes, p + j - 1) = str[j]
    /\ Rd(ustack.bytes, p + Len(str)) = 0

\* C19: the stack built by setup_user_stack reads upward from the returned
\* pointer as argc, the argv pointers in input order, a null word, the envp
\* pointers in input order, a null word, the auxv key/value pairs in input
\* order and an AT_NULL (0, 0) pair; each argv/envp pointer is non-null and
\* points at a NUL-terminated copy of its string, above the pointer area and
\* below stack_top.
C19_StackLayout ==
    ustack.pc = "done" =>
        LET argc == Len(ustack.argv)
            envc == Len(ustack.envp)
            auxc == Len(ustack.auxv)
            n == 1 + argc + 1 + envc + 1 + 2 * auxc + 2
        IN  /\ StackWord(0) = argc
            /\ \A k \in 1..argc :
                   PointsAtCopy(StackWord(k), ustack.argv[k], n)
            /\ StackWord(argc + 1) = 0
            /\ \A k \in 1..envc :
                   PointsAtCopy(StackWord(argc + 1 + k), ustack.envp[k], n)
            /\ StackWord(argc + envc + 2) = 0
            /\ \A k \in 1..auxc :
                   /\ StackWord(argc + envc + 1 + 2 * k) = ustack.auxv[k][1]
                   /\ StackWord(argc + envc + 2 + 2 * k) = ustack.auxv[k][2]
            /\ StackWord(argc + envc + 3 + 2 * auxc) = 0
            /\ StackWord(argc + envc + 4 + 2 * auxc) = 0

\* a stack was built for two different argv strings, an envp string and two
\* different auxv entries
C19_Witness ==
    /\ ustack.pc = "done"
    /\ Len(ustack.argv) = 2
    /\ ustack.argv[1] # ustack.argv[2]
    /\ Len(ustack.envp) >= 1
    /\ Len(ustack.auxv) = 2
    /\ ustack.auxv[1] # ustack.auxv[2]

\* C20: for every 16-byte-aligned stack_top and every argv, envp and auxv
\* (including argv = ["a", "bc"], envp = [], auxv = []) the pointer returned
\* by setup_user_stack is a multiple of 16.
C20_StackAligned ==
    (ustack.pc = "done" /\ ustack.stack_top % 16 = 0) => ustack.sp % 16 = 0

\* the entry the last call of apply_relocation was given
RelLast == rel.applied[Len(rel.applied)]

\* memory `mem` with the 64-bit word at `addr` set to `value`, nothing else
\* changed
OnlyWord(mem, addr, value) ==
    [a \in DOMAIN mem \cup {addr} |-> IF a = addr THEN value ELSE mem[a]]

\* the entries of the table of `size` bytes at `table`, in index order
TableAt(table, size) ==
    IF table = 0 THEN <<>>
    ELSE [k \in 1..(size \div RELA_SIZE) |->
             rel.structs[table + (k - 1) * RELA_SIZE]]

\* the RELA entries in index order, then the JMPREL entries in index order
RelAll ==
    TableAt(rel.lib.rela, rel.lib.relasz)
        \o TableAt(rel.lib.jmprel, rel.lib.pltrelsz)

\* C21: a RELATIVE relocation writes the 64-bit value base + addend (the
\* addend signed, the sum modulo 2^64) at address base + r_offset and changes
\* no other memory; with base 0x400000, r_offset 0x10 and addend 0x20 it
\* writes 0x400020 at 0x400010.
C21_Relative ==
    (rel.applied # <<>> /\ RelLast.r_info.lo = 8) =>
        /\ rel.mem = OnlyWord(rel.before, rel.lib.base_addr + RelLast.r_offset,
                              (rel.lib.base_addr + RelLast.r_addend) % UsizeMod)
        /\ (/\ rel.lib.base_addr = 4194304
            /\ RelLast.r_offset = 16
            /\ RelLast.r_addend = 32) => rel.mem[4194320] = 4194336

C21_Witness ==
    /\ Len(rel.applied) = 2
    /\ rel.applied[1] = Elf64Rela(24, 0, R_X86_64_RELATIVE, 0 - 8)
    /\ RelLast = Elf64Rela(16, 0, R_X86_64_RELATIVE, 32)
    /\ rel.mem[4194320] = 4194336
    /\ rel.mem[4194328] = 4194296

\* C22: in a library with a symbol table, a GLOB_DAT or JUMP_SLOT relocation
\* looks up the symbol whose index is the high half of r_info; when the
\* symbol's value is nonzero it writes base + value at base + r_offset and
\* nothing else, when it is zero it leaves all memory as it was, and the pass
\* goes on to the entries that remain.
C22_SymbolSlot ==
    /\ (rel.applied # <<>> /\ RelLast.r_info.lo \in {6, 7}
            /\ rel.lib.symtab # 0) =>
        LET value == SymValues[RelLast.r_info.hi + 1]
        IN  IF value # 0
            THEN rel.mem = OnlyWord(rel.before,
                                    rel.lib.base_addr + RelLast.r_offset,
                                    rel.lib.base_addr + value)
            ELSE rel.mem = rel.before
    /\ rel.pc = "done" => Len(rel.applied) = Len(RelAll)

C22_Witness ==
    /\ rel.pc = "done"
    /\ rel.lib.symtab # 0
    /\ rel.applied = <<Elf64Rela(16, 0, R_X86_64_RELATIVE, 32),
                       Elf64Rela(16, 2, R_X86_64_JUMP_SLOT, 0),
                       Elf64Rela(48, 1, R_X86_64_JUMP_SLOT, 0)>>
    /\ rel.mem[4194320] = 4194336
    /\ rel.mem[4194352] = 4198400

\* C23: a 64-bit absolute relocation (type 1) writes base + symbol value +
\* addend at base + r_offset for every symbol index carried in r_info,
\* index 0 included.
C23_Absolute ==
    (rel.applied # <<>> /\ RelLast.r_info.lo = 1 /\ rel.lib.symtab # 0) =>
        rel.mem = OnlyWord(rel.before, rel.lib.base_addr + RelLast.r_offset,
                           (rel.lib.base_addr
                              + SymValues[RelLast.r_info.hi + 1]
                              + RelLast.r_addend) % UsizeMod)

\* the same for the indexes other than 0: the part of C23 the code does
C23_AbsoluteNamed ==
    (rel.applied # <<>> /\ RelLast.r_info.lo = 1 /\ rel.lib.symtab # 0
        /\ RelLast.r_info.hi > 0) =>
        rel.mem = OnlyWord(rel.before, rel.lib.base_addr + RelLast.r_offset,
                           (rel.lib.base_addr
                              + SymValues[RelLast.r_info.hi + 1]
                              + RelLast.r_addend) % UsizeMod)

\* a type 1 entry with symbol index 0 was applied and wrote nothing
C23_IndexZeroSkipped ==
    /\ rel.applied # <<>>
    /\ RelLast = Elf64Rela(16, 0, R_X86_64_64, 32)
    /\ rel.lib.symtab # 0
    /\ rel.mem = rel.before

\* C24: apply_relocations applies every entry of the RELA table in index
\* order and then every entry of the JMPREL table in index order; an entry
\* of unknown type changes no memory and does not stop the pass.
C24_PassOrder ==
    /\ Len(rel.applied) <= Len(RelAll)
    /\ rel.applied = SubSeq(RelAll, 1, Len(rel.applied))
    /\ rel.pc = "jmprel" =>
           Len(rel.applied) >= Len(TableAt(rel.lib.rela, rel.lib.relasz))
    /\ rel.pc = "done" => rel.applied = RelAll
    /\ (rel.applied # <<>>
            /\ RelLast.r_info.lo \notin {0, 1, 6, 7, 8}) =>
           rel.mem = rel.before

C24_Witness ==
    /\ rel.pc = "done"
    /\ rel.lib.symtab # 0
    /\ Len(rel.applied) = 4
    /\ rel.applied[1].r_info.lo = UnknownRelType
    /\ rel.applied[2] = Elf64Rela(24, 0, R_X86_64_RELATIVE, 0 - 8)
    /\ rel.applied[4] = Elf64Rela(16, 1, R_X86_64_JUMP_SLOT, 0)
    /\ rel.mem[4194320] = 4198400
    /\ rel.mem[4194328] = 4194296

\* C25: after init_stack(buffer, entry_point, arg) returned initial_sp, the
\* first switch_context into initial_sp pops six registers and a return
\* address such that execution resumes at trampoline with r12 = entry_point
\* and r13 = arg, and trampoline then calls entry_point(arg).
C25_FirstSwitch ==
    /\ ctx.entered # 0 =>
           /\ ctx.cpu.rip = TrampolineAddr
           /\ ctx.cpu.r12 = ctx.bufs[ctx.entered].entry
           /\ ctx.cpu.r13 = ctx.bufs[ctx.entered].arg
           /\ ctx.cpu.rsp = ctx.bufs[ctx.entered].sp + 56
    /\ \A b \in Bufs :
           (ctx.pc = "entry" /\ ctx.bufs[b].started) =>
               /\ ctx.cpu.rip = ctx.bufs[b].entry
               /\ ctx.cpu.rdi = ctx.bufs[b].arg

\* the first switch into a stack made by init_stack found nothing of what
\* init_stack wrote: it popped the old content of the buffer
C25_FramePoppedUnwritten ==
    /\ ctx.entered = 1
    /\ ctx.pc = "derailed"
    /\ ctx.cpu.rip = ctx.fill
    /\ ctx.cpu.r12 = ctx.fill
    /\ ctx.cpu.r13 = ctx.fill

\* the first switch into the second stack resumed at trampoline with the
\* entry point given for the first stack
C25_OtherTaskEntered ==
    /\ ctx.pc = "entry"
    /\ ctx.bufs[2].started
    /\ ctx.bufs[2].sp # 0
    /\ ctx.cpu.rip = ctx.bufs[1].entry
    /\ ctx.cpu.rip # ctx.bufs[2].entry

\* C26: switch_context round-trips a suspended flow: when a flow called
\* switch_context(new_sp, &slot) and a later switch uses the value stored in
\* slot as its new_sp, the flow resumes at the return of its call with rbx,
\* rbp, r12, r13, r14, r15 and the stack pointer as they were at the call.
C26_RoundTrip ==
    ctx.resumed # 0 =>
        /\ ctx.cpu.rip = SwitchRet
        /\ \A r \in CalleeSaved : ctx.cpu[r] = ctx.snap[ctx.resumed][r]
        /\ ctx.cpu.rsp = ctx.snap[ctx.resumed].rsp

C26_Witness ==
    /\ ctx.resumed = 1
    /\ ctx.snap[1].r12 = 100
    /\ ctx.snap[1].rsp = Flow1Cpu.rsp - 16
    /\ ctx.cpu.r12 = 100
    /\ ctx.cpu.rbx = Flow1Cpu.rbx
    /\ ctx.cpu.rsp = Flow1Cpu.rsp - 16
    /\ ctx.snap[2].rbp # Flow2Cpu.rbp
    /\ 2 \in ctx.suspended

\* C27: whenever the timer interrupt handler invokes switch_context, the
\* SCHEDULER lock taken by that invocation has already been released: the
\* invocation acquired, decided and resolved the slots, released, and only
\* then switched; no invocation suspended by a switch holds the lock, so a
\* later invocation can acquire it.
C27_ReleasedBeforeSwitch ==
    /\ tmr.pc = "released" =>
           /\ tmr.lock # "handler"
           /\ tmr.h.trace = <<"acquire", "decide", "resolve", "release">>
    /\ tmr.switches > 0 => tmr.lock_at_switch = "free"
    /\ tmr.pc \in {"none", "entry", "eoi", "iret"} => tmr.lock # "handler"

C27_Witness ==
    /\ tmr.switches = 2
    /\ tmr.running = 2
    /\ tmr.started = {1, 2}
    /\ tmr.lock_at_switch = "free"
    /\ tmr.pc = "locked"
    /\ tmr.lock = "handler"

\* C28: when the SCHEDULER lock is already held as a timer interrupt fires,
\* the handler does not wait for it, decides nothing and switches nothing,
\* leaves current_pid and every saved stack pointer as they were, and still
\* signals end-of-interrupt.
C28_ContendedSkips ==
    (tmr.pc # "none" /\ tmr.h.contended) =>
        /\ tmr.pc \in {"entry", "eoi", "iret"}
        /\ tmr.lock = tmr.at_fire.lock
        /\ tmr.sched.current_pid = tmr.at_fire.current_pid
        /\ tmr.sched.queue = tmr.at_fire.queue
        /\ tmr.sched.sp = tmr.at_fire.sp
        /\ tmr.IDLE_STACK_POINTER = tmr.at_fire.IDLE_STACK_POINTER
        /\ tmr.switches = tmr.at_fire.switches
        /\ tmr.pc = "iret" => tmr.eoi = tmr.at_fire.eoi + 1

C28_Witness ==
    /\ tmr.pc = "iret"
    /\ tmr.h.contended
    /\ tmr.lock = "env"
    /\ tmr.running = 1
    /\ tmr.sched.queue = <<2>>
    /\ tmr.eoi = tmr.at_fire.eoi + 1
    /\ tmr.switches = 1

\* C29: on a syscall trap the dispatcher receives as syscall number the
\* value rax held, and as arguments 0, 1, 2 the values rdi, rsi, rdx held,
\* at the moment user code executed the syscall instruction.
C29_DispatcherArguments ==
    (trap.arch = "x86_64" /\ trap.pc \in {"return", "back"}) =>
        /\ trap.disp.nr = trap.user0.rax
        /\ trap.disp.arg0 = trap.user0.rdi
        /\ trap.disp.arg1 = trap.user0.rsi
        /\ trap.disp.arg2 = trap.user0.rdx

\* the dispatcher was given the user's rdi as the number and rsi, rdx, r10
\* as the arguments, for a getpid() whose rdi is 0
C29_ShiftedByOne ==
    /\ trap.arch = "x86_64" /\ trap.pc = "return"
    /\ trap.user0.rax = SYS_GETPID
    /\ trap.user0.rdi = 0
    /\ trap.disp = [nr |-> 0, arg0 |-> trap.user0.rsi,
                    arg1 |-> trap.user0.rdx, arg2 |-> trap.user0.r10]

\* C30: on return to user mode from a syscall, every user register other
\* than the return-value register holds the value it had before the syscall.
C30_RegistersPreserved ==
    (trap.pc = "back" /\ trap.mode = "user") =>
        \A r \in DOMAIN trap.regs \ {"rax"} : trap.regs[r] = trap.user0[r]

\* back in user mode the registers the kernel's Rust code may overwrite hold
\* what that code left, and rcx and r11 hold rip and rflags
C30_CallerSavedLost ==
    /\ trap.pc = "back" /\ trap.mode = "user"
    /\ trap.regs.rdi = Junk /\ trap.regs.rdi # trap.user0.rdi
    /\ trap.regs.rcx = UserRip /\ trap.regs.r11 = UserRflags
    /\ \A r \in CalleeSavedX86 \cup {"rsp", "rip", "rflags"} :
           trap.regs[r] = trap.user0[r]

\* C31: sys_brk neither panics nor wraps for any addr: a brk that shrinks
\* (addr inside the window and below the current break) completes, returns
\* addr, and hands the mapping collaborator no length that came out of an
\* unsigned underflow.
C31_BrkShrinkCompletes ==
    [][\A addr \in BrkArgs :
          (/\ dispatch(SYS_BRK, addr, 0, 0)
           /\ addr >= 8388608
           /\ addr < PROGRAM_BREAK)
              => /\ ~panicked'
                 /\ sys_ret' = addr
                 /\ \A k \in 1..Len(map_reqs') : map_reqs'[k].len >= 0]_vars

\* C40: after any interleaving of brk and mmap calls, the regions returned
\* by two different mmap(0, len) calls with len > 0 never overlap (munmap
\* releases nothing, so every region handed out stays handed out).
C40_MmapDisjoint ==
    [][\A a \in MmapArgs :
          (dispatch(SYS_MMAP, a[1], a[2], 0) /\ a[1] = 0 /\ a[2] > 0)
              => \A r \in mmaps :
                     \/ r.start + r.len <= sys_ret'
                     \/ sys_ret' + a[2] <= r.start]_vars

\* the pages that intersect [start_addr, start_addr + len)
Intersecting(start_addr, len) ==
    {page \in Pages : /\ len > 0
                      /\ page * PAGE_SIZE < start_addr + len
                      /\ (page + 1) * PAGE_SIZE > start_addr}

\* C38: make_user_accessible(start, len) sets the user-accessible flag on
\* exactly the mapped 4 KiB pages that intersect [start, start + len) and on
\* no page outside it, also when start + len is page-aligned and when len is
\* 0; calling it again with the same arguments changes nothing.
C38_ExactPages ==
    (pg.pc = "walk" /\ pg.calls > 0)
        => /\ pg.user = pg.before
                        \cup (Intersecting(pg.start_addr, pg.len)
                              \cap pg.mapped)
           /\ pg.repeat => pg.same

\* the target addresses a step of the loader wrote
ElfWritten ==
    {a \in DOMAIN umem' : a \notin DOMAIN umem \/ umem'[a] # umem[a]}

\* C36: for every PT_LOAD entry, all bytes load_elf writes for it (the copied
\* file bytes and the zero fill) lie inside [vaddr, vaddr + p_memsz), the
\* range it asked to make accessible for that entry, whatever p_filesz and
\* p_memsz are, p_filesz > p_memsz included.
C36_WritesInsideSegment ==
    [][elf_phdr =>
          \/ ElfWritten = {}
          \/ /\ Len(map_reqs') = Len(map_reqs) + 1
             /\ \A a \in ElfWritten :
                    /\ a >= map_reqs'[Len(map_reqs')].start
                    /\ a < map_reqs'[Len(map_reqs')].start
                           + map_reqs'[Len(map_reqs')].len]_vars

\* C37: a failed load is all-or-nothing: whenever load_elf returns an error,
\* an out-of-bounds program header met after PT_LOAD entries were processed
\* included, no mapping request and no write to target memory has been made.
C37_FailedLoadLeavesNothing ==
    (elf.pc = "done" /\ elf.result \in ElfErrors)
        => (map_reqs = <<>> /\ umem = NoMem)

\* queue::get_task_by_pid(pid): the first handle of ALL_TASKS whose task has
\* that id, 0 standing for None
get_task_by_pid(pid) ==
    IF \E k \in 1..Len(ALL_TASKS) : tasks[ALL_TASKS[k]].id = pid
    THEN ALL_TASKS[CHOOSE k \in 1..Len(ALL_TASKS) :
                       /\ tasks[ALL_TASKS[k]].id = pid
                       /\ \A j \in 1..(k - 1) : tasks[ALL_TASKS[j]].id # pid]
    ELSE 0

\* C33: every task that has been created (the init task made by sched::init
\* and every task added by spawn_task or fork) is recorded in the task
\* table: get_task_by_pid(pid) returns it, and returns nothing only for pids
\* that were never assigned.
C33_TaskTableComplete ==
    /\ \A h \in 1..Len(tasks) : get_task_by_pid(tasks[h].id) = h
    /\ \A pid \in 1..(MaxTasks + 1) :
           get_task_by_pid(pid) = 0 => pid >= NEXT_PID

\* C39: after a task calls exit(code) its recorded exit status equals code;
\* a task that has not exited has exit status 0.
C39_ExitStatusRecorded ==
    /\ (last.op = "exit" /\ CURRENT_TASK # 0)
           => tasks[CURRENT_TASK].exit_status = last.ret
    /\ \A h \in 1..Len(tasks) :
           tasks[h].state # "Terminated" => tasks[h].exit_status = 0

\* the addresses of the words a step wrote into stack memory
CtxWritten ==
    {x \in DOMAIN ctx'.mem : x \notin DOMAIN ctx.mem
                             \/ ctx'.mem[x] # ctx.mem[x]}

\* C35: every memory write init_stack performs lands inside the buffer it
\* was given, at an address in [returned sp, aligned top of the buffer); no
\* byte outside the buffer is modified.
C35_WritesInsideBuffer ==
    [][\A b \in Bufs, e \in Entries, a \in Args :
          ctx_init_stack(b, e, a) =>
              \A x \in CtxWritten :
                  /\ x >= BufBase(b)
                  /\ x >= ctx'.bufs[b].sp
                  /\ x + 8 <= align_down16(BufBase(b) + BufLen(b))]_vars

\* C34: with two or more tasks spawned before interrupts are enabled and
\* timer interrupts recurring, every spawned task is eventually switched to:
\* a tick whose handler switches into a task that never ran (through
\* trampoline) is still eventually acknowledged with EOI and interrupts are
\* enabled again, so that later ticks keep being delivered.
C34_EveryTaskRuns ==
    /\ [](tmr.in_service => <>(~tmr.in_service /\ tmr.intr))
    /\ Len(tmr.sched.queue) >= 2
           => <>(tmr.started = Pids \/ tmr.ticks = MaxTicks)

====
